---- MODULE Spec2Model ----
(***************************************************************************)
(* Financial risk analyzer: the batch orchestrator of routes/company.js    *)
(* (POST /analyze, processCompaniesInBatches, analyzeCompany), the         *)
(* portfolio aggregation of the AI analysis service, and the data service  *)
(* (resolver, provider fallback, cache, quota counters) of                 *)
(* services/financialDataService.js.                                       *)
(*                                                                         *)
(* Two specifications share the module:                                    *)
(*   Spec     the batch run of one POST /analyze request; the data service *)
(*            is seen through what analyzeCompany awaits.                  *)
(*   SvcSpec  the data service called by concurrent callers; every await   *)
(*            of a provider call is a step.                                *)
(* Strings are sequences of one-character strings, so that toLowerCase,    *)
(* toUpperCase, trim and the ticker regular expression are computed.       *)
(***************************************************************************)
EXTENDS Integers, Sequences, FiniteSets, TLC

VARIABLES
    companies,   \* req.body.companies of the request
    bpc,         \* where the request handler stands
    i,           \* loop variable i of processCompaniesInBatches
    item,        \* per input: the analyzeCompany call made for it
    results,     \* the results array of processCompaniesInBatches
    response,    \* what the handler sent (res.status(..).json(..))
    cache,       \* the NodeCache instance: key -> value, absent keys omitted
    requestsToday, \* dataSources[p].requestsToday
    apiKey,      \* dataSources[p].apiKey is configured
    call,        \* per caller: the data-service call it is in
    opsStarted,  \* number of data-service calls started so far
    netCalls,    \* history: network calls issued to each provider
    log,         \* history: per caller, the provider calls it issued, in order
    argFinancials,   \* calculateAllRatios(financials, .., ..): the statements
    argMarketData,   \* calculateAllRatios(.., marketData, ..)
    argOverview,     \* calculateAllRatios(.., .., overview): the identity
    calculatedRatios, \* what calculateAllRatios returned
    argCompanies,    \* generatePortfolioAnalysis(companies)
    portfolioAnalysis, \* what generatePortfolioAnalysis returned
    argIndustry,     \* determineCompanyType(industry, ..)
    argSector,       \* determineCompanyType(.., sector)
    determinedType   \* what determineCompanyType returned

batchVars == <<companies, bpc, i, item, results, response>>
svcVars == <<cache, requestsToday, apiKey, call, opsStarted, netCalls, log>>
ratioVars == <<argFinancials, argMarketData, argOverview, calculatedRatios>>
portfolioVars == <<argCompanies, portfolioAnalysis>>
typeVars == <<argIndustry, argSector, determinedType>>
pureVars == <<ratioVars, portfolioVars, typeVars>>
vars == <<batchVars, svcVars, pureVars>>

-----------------------------------------------------------------------------
(* Strings *)

UpperCaseLetters == <<"A", "B", "C", "D", "E", "F", "G", "H", "I", "J", "K", "L", "M", "N", "O", "P", "Q", "R", "S", "T", "U", "V", "W", "X", "Y", "Z">>
LowerCaseLetters == <<"a", "b", "c", "d", "e", "f", "g", "h", "i", "j", "k", "l", "m", "n", "o", "p", "q", "r", "s", "t", "u", "v", "w", "x", "y", "z">>

toLowerChar(c) ==
    IF \E k \in DOMAIN UpperCaseLetters : UpperCaseLetters[k] = c
    THEN LowerCaseLetters[CHOOSE k \in DOMAIN UpperCaseLetters : UpperCaseLetters[k] = c]
    ELSE c

toUpperChar(c) ==
    CASE c = "a" -> "A"
      [] c = "b" -> "B"
      [] OTHER -> c

toLowerCase(s) == [k \in DOMAIN s |-> toLowerChar(s[k])]

toUpperCase(s) == [k \in DOMAIN s |-> toUpperChar(s[k])]

\* String.prototype.trim: the white space at both ends is removed.
trim(s) ==
    LET solid == {k \in DOMAIN s : s[k] # " "}
    IN  IF solid = {} THEN <<>>
        ELSE LET lo == CHOOSE k \in solid : \A m \in solid : k <= m
                 hi == CHOOSE k \in solid : \A m \in solid : m <= k
             IN  SubSeq(s, lo, hi)

\* /^[A-Z]{1,4}$/.test(s)
LooksLikeTicker(s) ==
    /\ Len(s) >= 1
    /\ Len(s) <= 4
    /\ \A k \in DOMAIN s : s[k] \in {"A", "B"}

-----------------------------------------------------------------------------
(* The providers' world as the batch run sees it *)

\* The inputs requests are built from: tickers, lower-case and padded
\* spellings, a two-word name, and one input listed twice.
Roster ==
    << <<"A", "B">>, <<"b", "a">>, <<" ", "B">>, <<"a">>,
       <<"A", " ", "B">>, <<"A", "B">>, <<"b">> >>

RosterAt(n) == Roster[((n - 1) % Len(Roster)) + 1]

\* Largest request the batch specification starts from.
MaxBatch == 6

\* The request size validated by the route.
MaxCompanies == 50

\* The group size the route passes to processCompaniesInBatches.
batchSize == 5

RECURSIVE Squeeze(_)
Squeeze(s) ==
    IF s = <<>> THEN <<>>
    ELSE IF Head(s) = " " THEN Squeeze(Tail(s))
    ELSE <<Head(s)>> \o Squeeze(Tail(s))

\* The symbol the provider's search lists for a query (bestMatch.symbol).
WorldSymbol(input) == Squeeze(toUpperCase(input))

\* The identity resolveCompanyTicker returns for an input that resolves.
WorldIdentity(input) ==
    [ticker |-> WorldSymbol(input),
     companyType |-> IF WorldSymbol(input) = <<"B">> THEN "manufacturing"
                     ELSE "non-manufacturing"]

\* The distress score calculateAllRatios returns for the ticker's statements;
\* altmanZScore is kept in hundredths (the code rounds it to two decimals).
WorldDistressScore(ticker) ==
    CASE ticker = <<"A", "B">> -> [altmanZScore |-> 405, riskZone |-> "Safe Zone"]
      [] ticker = <<"B", "A">> -> [altmanZScore |-> 200, riskZone |-> "Grey Zone"]
      [] ticker = <<"B">> -> [altmanZScore |-> -37, riskZone |-> "Distress Zone"]
      [] OTHER -> [altmanZScore |-> 0, riskZone |-> "Unknown"]

\* Error messages. getFinancialStatements rethrows the axios error, whose
\* message is that of the underlying failure and can be the empty string.
ResolveMessage == "Could not resolve company. Please use the stock ticker symbol or check the spelling."
PriceMessage == "Price data unavailable. Please try again later."
AxiosMessage(input) ==
    IF WorldSymbol(input) = <<"B", "A">> THEN "" ELSE "timeout of 5000ms exceeded"

-----------------------------------------------------------------------------
(* analyzeCompany *)

\* pc: where analyzeCompany stands. fin, mkt: the getFinancialStatements and
\* getCurrentPrice calls: "none", "inflight", "done" (completed), "threw"
\* (it made Promise.all reject). err: the message of the rejection.
Idle == [pc |-> "idle", fin |-> "none", mkt |-> "none", err |-> ""]

\* analyzeCompany(companyInput) runs up to its first await.
analyzeCompanyStart == [pc |-> "resolve", fin |-> "none", mkt |-> "none", err |-> ""]

\* What the fulfilled promise of analyzeCompany carries (the return value).
analyzeCompanyValue(input) ==
    [company |-> WorldIdentity(input),
     analysis |-> [distressScore |-> WorldDistressScore(WorldSymbol(input))]]

Settled(it) == it.pc \in {"fulfilled", "rejected"}

Active(it) == it.pc \in {"resolve", "fetch", "ai"}

\* A provider call of the item is still in flight.
InFlight(it) == Active(it) \/ it.fin = "inflight" \/ it.mkt = "inflight"

-----------------------------------------------------------------------------
(* processCompaniesInBatches *)

Min(a, b) == IF a <= b THEN a ELSE b

\* companies.slice(i, i + batchSize), as the 1-based positions it holds.
Slice(cs, from, size) == (from + 1) .. Min(from + size, Len(cs))

\* Mutant: the group is left as soon as one promise has settled.
allSettledAny(its, group) == \E k \in group : its[k].pc \in {"fulfilled", "rejected"}

\* Mutant: the group is left only when every promise is fulfilled.
allSettledFulfilled(its, group) == \A k \in group : its[k].pc = "fulfilled"

\* Promise.allSettled(batchPromises) resolves when every promise has settled.
allSettled(its, group) == \A k \in group : Settled(its[k])

\* The company key of an outcome record holds a string or an object; the
\* string is wrapped, so that both are records.
JsString(s) == [string |-> s]

\* { success: true, company, ...result.value }: the spread is applied after
\* the company key, so the keys of result.value win.
FulfilledRecord(company, value) ==
    value @@ [success |-> TRUE, company |-> JsString(company)]

\* Mutant: the message is copied without the fallback text.
RejectedRecordNoFallback(company, message) ==
    [success |-> FALSE, company |-> JsString(company), error |-> message]

\* { success: false, company, error: result.reason.message || 'Analysis failed' }
RejectedRecord(company, message) ==
    [success |-> FALSE, company |-> JsString(company),
     error |-> IF message # "" THEN message ELSE "Analysis failed"]

OutcomeRecord(company, it) ==
    IF it.pc = "fulfilled" THEN FulfilledRecord(company, analyzeCompanyValue(company))
    ELSE RejectedRecord(company, it.err)

RECURSIVE PushGroupFulfilledOnly(_, _, _, _, _)
\* Mutant: only the fulfilled promises are pushed.
PushGroupFulfilledOnly(res, cs, its, from, to) ==
    IF from > to THEN res
    ELSE PushGroupFulfilledOnly(
            IF its[from].pc = "fulfilled"
            THEN Append(res, OutcomeRecord(cs[from], its[from])) ELSE res,
            cs, its, from + 1, to)

RECURSIVE PushGroup(_, _, _, _, _)
\* batchResults.forEach((result, index) => results.push(...)) over from..to
PushGroup(res, cs, its, from, to) ==
    IF from > to THEN res
    ELSE PushGroup(Append(res, OutcomeRecord(cs[from], its[from])), cs, its, from + 1, to)

-----------------------------------------------------------------------------
(* generatePortfolioAnalysis, assessPortfolioRisk *)

\* Math.round(a / b) for b > 0: halves round up.
RoundDiv(a, b) == (2 * a + b) \div (2 * b)

\* company.analysis?.distressScore?.altmanZScore || 0
ZScoreOrZero(company) ==
    IF "analysis" \in DOMAIN company THEN company.analysis.distressScore.altmanZScore ELSE 0

\* company.analysis?.distressScore?.riskZone || 'Unknown'
ZoneOrUnknown(company) ==
    IF "analysis" \in DOMAIN company THEN company.analysis.distressScore.riskZone ELSE "Unknown"

RECURSIVE SumZ(_)
SumZ(cs) ==
    IF cs = <<>> THEN 0
    ELSE ZScoreOrZero(Head(cs)) + SumZ(Tail(cs))

\* Mutant: a company of unknown zone is counted in the Distress zone.
ZoneCountUnknownAsDistress(cs, zone) ==
    Cardinality({k \in DOMAIN cs :
        \/ ZoneOrUnknown(cs[k]) = zone
        \/ (zone = "Distress Zone" /\ ZoneOrUnknown(cs[k]) = "Unknown")})

ZoneCount(cs, zone) ==
    Cardinality({k \in DOMAIN cs : ZoneOrUnknown(cs[k]) = zone})

\* Mutant: a share equal to a threshold already triggers the higher tier.
assessPortfolioRiskFrom(riskDistribution, totalCompanies) ==
    IF riskDistribution["Distress Zone"] * 100 >= 25 * totalCompanies THEN "High"
    ELSE IF \/ riskDistribution["Distress Zone"] * 100 >= 10 * totalCompanies
            \/ riskDistribution["Grey Zone"] * 100 >= 50 * totalCompanies
         THEN "Medium"
    ELSE "Low"

assessPortfolioRisk(riskDistribution, totalCompanies) ==
    IF riskDistribution["Distress Zone"] * 100 > 25 * totalCompanies THEN "High"
    ELSE IF \/ riskDistribution["Distress Zone"] * 100 > 10 * totalCompanies
            \/ riskDistribution["Grey Zone"] * 100 > 50 * totalCompanies
         THEN "Medium"
    ELSE "Low"

generatePortfolioAnalysis(cs) ==
    LET totalCompanies == Len(cs)
        riskDistribution ==
            [z \in {"Safe Zone", "Grey Zone", "Distress Zone"} |-> ZoneCount(cs, z)]
    IN  [totalCompanies |-> totalCompanies,
         averageZScore |-> RoundDiv(SumZ(cs), totalCompanies),
         riskDistribution |->
            [safeZone |-> [count |-> riskDistribution["Safe Zone"],
                           percentage |-> RoundDiv(riskDistribution["Safe Zone"] * 100, totalCompanies)],
             greyZone |-> [count |-> riskDistribution["Grey Zone"],
                           percentage |-> RoundDiv(riskDistribution["Grey Zone"] * 100, totalCompanies)],
             distressZone |-> [count |-> riskDistribution["Distress Zone"],
                               percentage |-> RoundDiv(riskDistribution["Distress Zone"] * 100, totalCompanies)]],
         portfolioRisk |-> assessPortfolioRisk(riskDistribution, totalCompanies)]

-----------------------------------------------------------------------------
(* router.post('/analyze') *)

IsSuccess(r) == r.success

\* Mutant: the failed analyses are not filtered out.
successfulResultsUnfiltered(res) == res

successfulResults(res) == SelectSeq(res, IsSuccess)

IsFailure(r) == ~r.success

failedCompanies(res) == SelectSeq(res, IsFailure)

Warnings(failed) == [k \in DOMAIN failed |-> [company |-> failed[k].company, error |-> failed[k].error]]

NoResponse == [status |-> 0]

\* The response sent once processCompaniesInBatches has returned.
AnalyzeResponse(cs, res) ==
    LET ok == successfulResults(res)
        failed == failedCompanies(res)
    IN  IF Len(ok) = 0
        THEN [status |-> 400,
              error |-> "Unable to analyze any of the provided companies",
              failedCompanies |-> Warnings(failed)]
        ELSE (IF Len(failed) > 0 THEN [warnings |-> Warnings(failed)] ELSE <<>>) @@
             [status |-> 200,
              success |-> TRUE,
              totalCompanies |-> Len(cs),
              successfulAnalyses |-> Len(ok),
              failedAnalyses |-> Len(failed),
              results |-> ok,
              portfolioSummary |-> generatePortfolioAnalysis(ok)]

-----------------------------------------------------------------------------
(* The batch run: actions *)

Positions == 1 .. Len(companies)

\* batch.map(company => analyzeCompany(company)) for the group at offset from
StartGroup(its, cs, from) ==
    [k \in DOMAIN its |->
        IF k \in Slice(cs, from, batchSize) THEN analyzeCompanyStart ELSE its[k]]

\* The request arrives: validation, then the first group is started.
PostAnalyze ==
    /\ bpc = "received"
    /\ IF Len(companies) = 0
       THEN /\ response' = [status |-> 400, error |-> "Companies array is required"]
            /\ bpc' = "responded"
            /\ UNCHANGED <<i, item>>
       ELSE IF Len(companies) > MaxCompanies
       THEN /\ response' = [status |-> 400, error |-> "Maximum 50 companies allowed per analysis"]
            /\ bpc' = "responded"
            /\ UNCHANGED <<i, item>>
       ELSE /\ i' = 0
            /\ item' = StartGroup(item, companies, 0)
            /\ bpc' = "group"
            /\ UNCHANGED response
    /\ UNCHANGED <<companies, results>>
    /\ UNCHANGED <<svcVars, pureVars>>

\* await resolveCompanyTicker(companyInput) returns an identity: the two
\* fetches are started together (Promise.all).
ResolveReturns(k) ==
    /\ k \in DOMAIN item
    /\ item[k].pc = "resolve"
    /\ item' = [item EXCEPT ![k] = [@ EXCEPT !.pc = "fetch", !.fin = "inflight", !.mkt = "inflight"]]
    /\ UNCHANGED <<companies, bpc, i, results, response>>
    /\ UNCHANGED <<svcVars, pureVars>>

\* resolveCompanyTicker throws: analyzeCompany rethrows.
ResolveThrows(k) ==
    /\ k \in DOMAIN item
    /\ item[k].pc = "resolve"
    /\ item' = [item EXCEPT ![k] = [@ EXCEPT !.pc = "rejected", !.err = ResolveMessage]]
    /\ UNCHANGED <<companies, bpc, i, results, response>>
    /\ UNCHANGED <<svcVars, pureVars>>

\* After both fetches returned: calculateAllRatios runs and
\* generateCompanyAnalysis is awaited.
AfterFetch(it) ==
    IF it.pc = "fetch" /\ it.fin = "done" /\ it.mkt = "done"
    THEN [it EXCEPT !.pc = "ai"]
    ELSE it

\* getFinancialStatements returns. When Promise.all has already rejected,
\* the outcome of the call is dropped ("done" either way).
StatementsReturn(k) ==
    /\ k \in DOMAIN item
    /\ item[k].fin = "inflight"
    /\ item' = [item EXCEPT ![k] = AfterFetch([@ EXCEPT !.fin = "done"])]
    /\ UNCHANGED <<companies, bpc, i, results, response>>
    /\ UNCHANGED <<svcVars, pureVars>>

\* getFinancialStatements throws: Promise.all rejects with the first error.
StatementsThrow(k) ==
    /\ k \in DOMAIN item
    /\ item[k].fin = "inflight"
    /\ item' = [item EXCEPT ![k] =
                  IF @.pc = "fetch"
                  THEN [@ EXCEPT !.pc = "rejected", !.fin = "threw",
                                 !.err = AxiosMessage(companies[k])]
                  ELSE [@ EXCEPT !.fin = "done"]]
    /\ UNCHANGED <<companies, bpc, i, results, response>>
    /\ UNCHANGED <<svcVars, pureVars>>

\* getCurrentPrice returns.
PriceReturns(k) ==
    /\ k \in DOMAIN item
    /\ item[k].mkt = "inflight"
    /\ item' = [item EXCEPT ![k] = AfterFetch([@ EXCEPT !.mkt = "done"])]
    /\ UNCHANGED <<companies, bpc, i, results, response>>
    /\ UNCHANGED <<svcVars, pureVars>>

\* getCurrentPrice throws.
PriceThrows(k) ==
    /\ k \in DOMAIN item
    /\ item[k].mkt = "inflight"
    /\ item' = [item EXCEPT ![k] =
                  IF @.pc = "fetch"
                  THEN [@ EXCEPT !.pc = "rejected", !.mkt = "threw", !.err = PriceMessage]
                  ELSE [@ EXCEPT !.mkt = "done"]]
    /\ UNCHANGED <<companies, bpc, i, results, response>>
    /\ UNCHANGED <<svcVars, pureVars>>

\* generateCompanyAnalysis returns (it catches its own errors): the promise
\* of analyzeCompany is fulfilled.
AnalysisReturns(k) ==
    /\ k \in DOMAIN item
    /\ item[k].pc = "ai"
    /\ item' = [item EXCEPT ![k] = [@ EXCEPT !.pc = "fulfilled"]]
    /\ UNCHANGED <<companies, bpc, i, results, response>>
    /\ UNCHANGED <<svcVars, pureVars>>

\* Promise.allSettled resolves: the group's outcomes are pushed in input
\* order; then either the pause before the next group starts, or the loop
\* ends and the handler builds and sends the response.
GroupSettled ==
    /\ bpc = "group"
    /\ LET group == Slice(companies, i, batchSize)
           last == Min(i + batchSize, Len(companies))
           pushed == PushGroup(results, companies, item, i + 1, last)
       IN  /\ allSettled(item, group)
           /\ results' = pushed
           /\ IF i + batchSize < Len(companies)
              THEN /\ bpc' = "pause"
                   /\ UNCHANGED response
              ELSE /\ bpc' = "responded"
                   /\ response' = AnalyzeResponse(companies, pushed)
    /\ UNCHANGED <<companies, i, item>>
    /\ UNCHANGED <<svcVars, pureVars>>

\* The 1000 ms timer fires: i += batchSize and the next group is started.
PauseElapsed ==
    /\ bpc = "pause"
    /\ i' = i + batchSize
    /\ item' = StartGroup(item, companies, i + batchSize)
    /\ bpc' = "group"
    /\ UNCHANGED <<companies, results, response>>
    /\ UNCHANGED <<svcVars, pureVars>>

BatchNext ==
    \/ PostAnalyze
    \/ GroupSettled
    \/ PauseElapsed
    \/ \E k \in 1 .. MaxBatch :
          \/ ResolveReturns(k)
          \/ ResolveThrows(k)
          \/ StatementsReturn(k)
          \/ StatementsThrow(k)
          \/ PriceReturns(k)
          \/ PriceThrows(k)
          \/ AnalysisReturns(k)

-----------------------------------------------------------------------------
(* The data service: providers, cache, values *)

FMP == "financialModelingPrep"
AV == "alphavantage"
Yahoo == "yahooFinance"
Finnhub == "finnhub"
Providers == {FMP, AV, Yahoo, Finnhub}

AlphaVantageDailyLimit == 25
FmpDailyLimit == 250
YahooDailyLimit == 1000
FinnhubDailyLimit == 60

dailyLimit(p) ==
    CASE p = AV -> AlphaVantageDailyLimit
      [] p = FMP -> FmpDailyLimit
      [] p = Yahoo -> YahooDailyLimit
      [] p = Finnhub -> FinnhubDailyLimit

\* The FMP counter starts at 0 or within Headroom calls of its limit: the
\* code never resets requestsToday, so the process carries whatever count
\* its earlier traffic left.
Headroom == 2

\* Number of data-service calls made, each by its own caller; they overlap
\* in every possible way.
MaxOps == 2

Callers == 1 .. MaxOps

\* Inputs of resolveCompanyTicker: a ticker, the same with a leading blank,
\* in lower case, and a two-word name.
SvcInputs == { <<"A", "B">>, <<" ", "A", "B">>, <<"a", "b">>, <<"A", " ", "B">> }

\* Tickers of the direct calls (GET /:ticker, analyzeCompany).
SvcTickers == { <<"A", "B">> }

\* Cache keys: `ticker_${...}`, `overview_${...}`, `financials_${...}`, `price_${...}`
CacheKey(kind, name) == [kind |-> kind, name |-> name]

NoValue == [origin |-> "none"]

\* The overview built from the FMP profile and key metrics.
FmpOverview(ticker) ==
    [what |-> "overview", ticker |-> ticker, origin |-> FMP,
     companyType |-> "non-manufacturing"]

\* The overview built from the Alpha Vantage OVERVIEW answer.
AvOverview(ticker) ==
    [what |-> "overview", ticker |-> ticker, origin |-> AV,
     companyType |-> "non-manufacturing"]

\* The match record searchCompanyByName returns: it has no companyType.
AvSearchMatch(ticker) ==
    [what |-> "match", ticker |-> ticker, origin |-> AV, companyType |-> "undefined"]

\* getMockCompanyOverview: defined by the service, called by nothing.
getMockCompanyOverview(ticker) ==
    [what |-> "overview", ticker |-> ticker, origin |-> "mock",
     companyType |-> "non-manufacturing"]

\* The statements built from the FMP answers; an empty answer (data[0]
\* undefined) yields the same record with every figure defaulted to 0.
FmpStatements(ticker, resp) ==
    [what |-> "financials", ticker |-> ticker, origin |-> FMP,
     figures |-> IF resp = "data" THEN "reported" ELSE "zeros"]

AvStatements(ticker) ==
    [what |-> "financials", ticker |-> ticker, origin |-> AV, figures |-> "reported"]

PriceData(ticker, p) == [what |-> "price", ticker |-> ticker, origin |-> p]

OverviewUnavailableMessage == "Financial data unavailable. API services are not available at the moment."
OverviewRetryMessage == "Financial data unavailable. Please try again later or check if the company ticker is correct."
StatementKeyMessage == "Income statement data unavailable. Alpha Vantage API key not configured."
StatementRetryMessage == "Income statement data unavailable. Please try again later."
AxiosTimeoutMessage == "timeout of 5000ms exceeded"

\* What a provider call can end in: a timeout or non-2xx answer, a 2xx
\* answer holding no data, a 2xx answer holding data.
Responses == {"error", "empty", "data"}

NoCall ==
    [op |-> "none", arg |-> <<>>, pc |-> "idle", ctx |-> "top", sym |-> <<>>,
     profile |-> "none", result |-> NoValue, err |-> "", sets |-> {}, prior |-> {}]

\* The part of the state one caller's step reads and writes.
Cur(c) ==
    [cache |-> cache, requestsToday |-> requestsToday, netCalls |-> netCalls,
     log |-> log[c], call |-> call[c]]

\* axios.get(...) on provider p: the call is issued.
axiosGet(st, p, endpoint) ==
    [st EXCEPT !.netCalls[p] = @ + 1, !.log = Append(@, <<p, endpoint, st.call.ctx>>)]

\* The caller is suspended at an await.
Await(st, pc) == [st EXCEPT !.call.pc = pc]

cacheHas(st, key) == key \in DOMAIN st.cache

\* cache.set(key, value); the caller's own writes are remembered.
cacheSet(st, key, value) ==
    [st EXCEPT !.cache = (key :> value) @@ @, !.call.sets = @ \cup {key}]

Return(st, value) == [st EXCEPT !.call.pc = "returned", !.call.result = value]

Throw(st, message) == [st EXCEPT !.call.pc = "threw", !.call.err = message]

Count(st, p, n) == [st EXCEPT !.requestsToday[p] = @ + n]

-----------------------------------------------------------------------------
(* getBestDataSource, getCompanyOverview, getCompanyOverviewFromFMP *)

getBestDataSource(st) ==
    IF apiKey[FMP] /\ st.requestsToday[FMP] < dailyLimit(FMP) THEN FMP
    ELSE IF apiKey[AV] /\ st.requestsToday[AV] < dailyLimit(AV) THEN AV
    ELSE "mock"

\* The key resolveCompanyTicker reads and writes.
TickerKey(companyInput) == CacheKey("ticker", toLowerCase(companyInput))

\* const normalizedInput = companyInput.trim().toUpperCase()
normalizedInput(companyInput) == toUpperCase(trim(companyInput))

\* Step 3 of resolveCompanyTicker: searchCompanyByName, up to its await.
searchCompanyByName(st) ==
    IF ~apiKey[AV] THEN Throw(st, ResolveMessage)
    ELSE Await(axiosGet(st, AV, "SYMBOL_SEARCH"), "avSearch")

\* The Alpha Vantage part of getCompanyOverview, up to its await.
OverviewFromAlphaVantage(st) == Await(axiosGet(st, AV, "OVERVIEW"), "avOverview")

RECURSIVE getCompanyOverview(_, _, _)

\* Mutant: the mock overview is returned when no data source is available.
OverviewUnavailableMock(st) ==
    Return(st, getMockCompanyOverview(st.call.sym))

\* getCompanyOverview finds no data source: it throws to its caller. A
\* direct lookup (step 2 of the resolver) ends in the resolver's catch; a
\* lookup made by searchCompanyFMP is caught there and the search yields
\* null (OverviewThrows).
OverviewUnavailable(st) ==
    Throw(st, OverviewUnavailableMessage)

\* Steps 2 and 3 of resolveCompanyTicker, entered when searchCompanyFMP
\* returned null.
AfterFmpSearch(st) ==
    IF LooksLikeTicker(normalizedInput(st.call.arg))
    THEN getCompanyOverview(st, normalizedInput(st.call.arg), "direct")
    ELSE searchCompanyByName(st)

\* getCompanyOverview returns value to whoever called it.
OverviewReturns(st, value) ==
    IF st.call.ctx = "top" THEN Return(st, value)
    ELSE Return(cacheSet(st, TickerKey(st.call.arg), value), value)

\* getCompanyOverview throws message to whoever called it.
OverviewThrows(st, message) ==
    CASE st.call.ctx = "top" -> Throw(st, message)
      [] st.call.ctx = "search" -> AfterFmpSearch(st)
      [] st.call.ctx = "direct" -> Throw(st, ResolveMessage)

getCompanyOverview(st0, ticker, ctx) ==
    LET st == [st0 EXCEPT !.call.sym = ticker, !.call.ctx = ctx]
        key == CacheKey("overview", ticker)
    IN  IF cacheHas(st, key) THEN OverviewReturns(st, st.cache[key])
        ELSE IF getBestDataSource(st) = "mock"
        THEN LET out == OverviewUnavailable(st)
             IN  IF out.call.pc = "threw" THEN OverviewThrows(st, out.call.err)
                 ELSE OverviewReturns(st, out.call.result)
        ELSE IF getBestDataSource(st) = FMP
        THEN Await(axiosGet(st, FMP, "profile"), "fmpProfile")
        ELSE OverviewFromAlphaVantage(st)

\* The profile call of getCompanyOverviewFromFMP answers.
OnFmpProfile(st, resp) ==
    IF resp = "error" THEN OverviewFromAlphaVantage(st)
    ELSE Await(axiosGet([st EXCEPT !.call.profile = resp], FMP, "key-metrics-ttm"), "fmpMetrics")

\* The key-metrics call answers; the overview is built when the profile
\* held data, the counter is raised by 2 and the overview is cached.
OnFmpMetrics(st, resp) ==
    IF resp = "error" \/ st.call.profile = "empty" THEN OverviewFromAlphaVantage(st)
    ELSE LET overview == FmpOverview(st.call.sym)
         IN  OverviewReturns(
                cacheSet(Count(st, FMP, 2), CacheKey("overview", st.call.sym), overview),
                overview)

\* The Alpha Vantage OVERVIEW call answers.
OnAvOverview(st, resp) ==
    IF resp = "data"
    THEN LET overview == AvOverview(st.call.sym)
         IN  OverviewReturns(cacheSet(st, CacheKey("overview", st.call.sym), overview), overview)
    ELSE OverviewThrows(st, OverviewRetryMessage)

-----------------------------------------------------------------------------
(* resolveCompanyTicker, searchCompanyFMP, searchCompanyByName *)

\* searchCompanyFMP, up to its await; without an API key it returns null.
searchCompanyFMP(st) ==
    IF ~apiKey[FMP] THEN AfterFmpSearch(st)
    ELSE Await(axiosGet(st, FMP, "search"), "fmpSearch")

\* The identities cached, when the call starts, for inputs with the same
\* normalized input (history, read by the claims only).
CachedForSameInput(st, companyInput) ==
    {st.cache[k] : k \in {x \in DOMAIN st.cache :
        x.kind = "ticker" /\ normalizedInput(x.name) = normalizedInput(companyInput)}}

\* resolveCompanyTicker(companyInput), up to its first await.
resolveCompanyTicker(st0, companyInput) ==
    LET st == [st0 EXCEPT !.call = [NoCall EXCEPT !.op = "resolveCompanyTicker",
                                                  !.arg = companyInput,
                                                  !.prior = CachedForSameInput(st0, companyInput)]]
        cacheKey == TickerKey(companyInput)
    IN  IF cacheHas(st, cacheKey) THEN Return(st, st.cache[cacheKey])
        ELSE searchCompanyFMP(st)

\* The FMP search answers. A non-empty result list raises the counter by 1
\* and the overview of the best match is fetched.
OnFmpSearch(st, resp) ==
    IF resp = "data"
    THEN getCompanyOverview(Count(st, FMP, 1), WorldSymbol(st.call.arg), "search")
    ELSE AfterFmpSearch(st)

\* Mutant: a match of the Alpha Vantage search is followed by the direct
\* overview lookup instead of being returned.
OnAvSearchThenDirect(st, resp) ==
    IF resp = "data"
    THEN getCompanyOverview(st, WorldSymbol(st.call.arg), "direct")
    ELSE Throw(st, ResolveMessage)

\* The Alpha Vantage SYMBOL_SEARCH answers.
OnAvSearch(st, resp) ==
    IF resp = "data"
    THEN LET match == AvSearchMatch(WorldSymbol(st.call.arg))
         IN  Return(cacheSet(st, TickerKey(st.call.arg), match), match)
    ELSE Throw(st, ResolveMessage)

-----------------------------------------------------------------------------
(* getFinancialStatements *)

\* The three statement calls go out together (Promise.all).
ThreeCalls(st, p, a, b, c) == axiosGet(axiosGet(axiosGet(st, p, a), p, b), p, c)

\* Mutant: a failure of the FMP statements falls back to Alpha Vantage.
StatementsFromAlphaVantage(st) ==
    IF ~apiKey[AV] THEN Throw(st, StatementKeyMessage)
    ELSE Await(ThreeCalls(st, AV, "INCOME_STATEMENT", "BALANCE_SHEET", "CASH_FLOW"),
               "avStatements")

getFinancialStatements(st0, ticker) ==
    LET st == [st0 EXCEPT !.call = [NoCall EXCEPT !.op = "getFinancialStatements",
                                                  !.arg = ticker, !.sym = ticker]]
        key == CacheKey("financials", ticker)
    IN  IF cacheHas(st, key) THEN Return(st, st.cache[key])
        ELSE IF getBestDataSource(st) = FMP
        THEN Await(ThreeCalls(st, FMP, "income-statement", "balance-sheet-statement",
                              "cash-flow-statement"), "fmpStatements")
        ELSE StatementsFromAlphaVantage(st)

\* The three FMP calls have answered; resp is "error" when one of them failed.
OnFmpStatements(st, resp) ==
    IF resp = "error" THEN Throw(st, AxiosTimeoutMessage)
    ELSE LET financials == FmpStatements(st.call.sym, resp)
         IN  Return(cacheSet(Count(st, FMP, 3), CacheKey("financials", st.call.sym), financials),
                    financials)

\* The three Alpha Vantage calls have answered; "data" when every answer
\* holds an annual report.
OnAvStatements(st, resp) ==
    IF resp = "data"
    THEN LET financials == AvStatements(st.call.sym)
         IN  Return(cacheSet(st, CacheKey("financials", st.call.sym), financials), financials)
    ELSE Throw(st, StatementRetryMessage)

-----------------------------------------------------------------------------
(* getCurrentPrice *)

PriceFromAlphaVantage(st) ==
    IF apiKey[AV] THEN Await(axiosGet(st, AV, "GLOBAL_QUOTE"), "avPrice")
    ELSE Throw(st, PriceMessage)

PriceFromYahoo(st) == Await(axiosGet(st, Yahoo, "quoteSummary"), "yahooPrice")

getCurrentPrice(st0, ticker) ==
    LET st == [st0 EXCEPT !.call = [NoCall EXCEPT !.op = "getCurrentPrice",
                                                  !.arg = ticker, !.sym = ticker]]
        key == CacheKey("price", ticker)
    IN  IF cacheHas(st, key) THEN Return(st, st.cache[key])
        ELSE IF apiKey[FMP] THEN Await(axiosGet(st, FMP, "profile"), "fmpPrice")
        ELSE PriceFromYahoo(st)

PriceFound(st, p) ==
    LET priceData == PriceData(st.call.sym, p)
    IN  Return(cacheSet(st, CacheKey("price", st.call.sym), priceData), priceData)

\* Mutant: after Financial Modeling Prep the fallback is Alpha Vantage.
OnFmpPriceSkippingYahoo(st, resp) ==
    IF resp = "data" THEN PriceFound(Count(st, FMP, 1), FMP)
    ELSE PriceFromAlphaVantage(st)

OnFmpPrice(st, resp) ==
    IF resp = "data" THEN PriceFound(Count(st, FMP, 1), FMP)
    ELSE PriceFromYahoo(st)

OnYahooPrice(st, resp) ==
    IF resp = "data" THEN PriceFound(st, Yahoo)
    ELSE PriceFromAlphaVantage(st)

OnAvPrice(st, resp) ==
    IF resp = "data" THEN PriceFound(st, AV)
    ELSE Throw(st, PriceMessage)

-----------------------------------------------------------------------------
(* The data service: actions *)

\* A caller's step is applied to the shared state.
Apply(c, st) ==
    /\ cache' = st.cache
    /\ requestsToday' = st.requestsToday
    /\ netCalls' = st.netCalls
    /\ log' = [log EXCEPT ![c] = st.log]
    /\ call' = [call EXCEPT ![c] = st.call]
    /\ UNCHANGED apiKey
    /\ UNCHANGED <<batchVars, pureVars>>

Starts(c) ==
    /\ call[c].pc = "idle"
    /\ opsStarted < MaxOps
    /\ opsStarted' = opsStarted + 1

CallResolveCompanyTicker(c) ==
    /\ Starts(c)
    /\ \E companyInput \in SvcInputs : Apply(c, resolveCompanyTicker(Cur(c), companyInput))

CallGetCompanyOverview(c) ==
    /\ Starts(c)
    /\ \E ticker \in SvcTickers :
          Apply(c, getCompanyOverview(
                      [Cur(c) EXCEPT !.call = [NoCall EXCEPT !.op = "getCompanyOverview",
                                                             !.arg = ticker]],
                      ticker, "top"))

CallGetFinancialStatements(c) ==
    /\ Starts(c)
    /\ \E ticker \in SvcTickers : Apply(c, getFinancialStatements(Cur(c), ticker))

CallGetCurrentPrice(c) ==
    /\ Starts(c)
    /\ \E ticker \in SvcTickers : Apply(c, getCurrentPrice(Cur(c), ticker))

\* The provider call a caller awaits answers, and the caller runs on to its
\* next await, its return or its throw.
Continue(c, st) ==
    /\ UNCHANGED opsStarted
    /\ Apply(c, st)

FmpSearchResponds(c) ==
    /\ call[c].pc = "fmpSearch"
    /\ \E resp \in Responses : Continue(c, OnFmpSearch(Cur(c), resp))

FmpProfileResponds(c) ==
    /\ call[c].pc = "fmpProfile"
    /\ \E resp \in Responses : Continue(c, OnFmpProfile(Cur(c), resp))

FmpMetricsResponds(c) ==
    /\ call[c].pc = "fmpMetrics"
    /\ \E resp \in Responses : Continue(c, OnFmpMetrics(Cur(c), resp))

AvOverviewResponds(c) ==
    /\ call[c].pc = "avOverview"
    /\ \E resp \in Responses : Continue(c, OnAvOverview(Cur(c), resp))

AvSearchResponds(c) ==
    /\ call[c].pc = "avSearch"
    /\ \E resp \in Responses : Continue(c, OnAvSearch(Cur(c), resp))

FmpStatementsRespond(c) ==
    /\ call[c].pc = "fmpStatements"
    /\ \E resp \in Responses : Continue(c, OnFmpStatements(Cur(c), resp))

AvStatementsRespond(c) ==
    /\ call[c].pc = "avStatements"
    /\ \E resp \in Responses : Continue(c, OnAvStatements(Cur(c), resp))

FmpPriceResponds(c) ==
    /\ call[c].pc = "fmpPrice"
    /\ \E resp \in Responses : Continue(c, OnFmpPrice(Cur(c), resp))

YahooPriceResponds(c) ==
    /\ call[c].pc = "yahooPrice"
    /\ \E resp \in Responses : Continue(c, OnYahooPrice(Cur(c), resp))

AvPriceResponds(c) ==
    /\ call[c].pc = "avPrice"
    /\ \E resp \in Responses : Continue(c, OnAvPrice(Cur(c), resp))

\* The TTL of a cache entry (stdTTL: 300 s) elapses.
Expire ==
    /\ \E key \in DOMAIN cache :
          cache' = [k \in DOMAIN cache \ {key} |-> cache[k]]
    /\ UNCHANGED <<requestsToday, apiKey, call, opsStarted, netCalls, log>>
    /\ UNCHANGED <<batchVars, pureVars>>

SvcNext ==
    \/ Expire
    \/ \E c \in Callers :
          \/ CallResolveCompanyTicker(c)
          \/ CallGetCompanyOverview(c)
          \/ CallGetFinancialStatements(c)
          \/ CallGetCurrentPrice(c)
          \/ FmpSearchResponds(c)
          \/ FmpProfileResponds(c)
          \/ FmpMetricsResponds(c)
          \/ AvOverviewResponds(c)
          \/ AvSearchResponds(c)
          \/ FmpStatementsRespond(c)
          \/ AvStatementsRespond(c)
          \/ FmpPriceResponds(c)
          \/ YahooPriceResponds(c)
          \/ AvPriceResponds(c)

-----------------------------------------------------------------------------
(* JavaScript numbers *)

\* A number is a fraction n/d in lowest terms (d > 0), +Infinity or
\* -Infinity (kind "inf", n the sign), or NaN; a missing property reads as
\* undefined. Binary rounding of the fractions is not modelled.
Abs(x) == IF x < 0 THEN -x ELSE x

RECURSIVE GCD(_, _)
GCD(a, b) == IF b = 0 THEN a ELSE GCD(b, a % b)

Sign(x) == IF x > 0 THEN 1 ELSE IF x < 0 THEN -1 ELSE 0

Rat(n, d) ==
    LET g == GCD(Abs(n), Abs(d))
    IN  [kind |-> "fin", n |-> (Sign(d) * n) \div g, d |-> Abs(d) \div g]

Num(n) == [kind |-> "fin", n |-> n, d |-> 1]
Infinity(sign) == [kind |-> "inf", n |-> sign, d |-> 0]
NaN == [kind |-> "nan", n |-> 0, d |-> 0]
Undefined == [kind |-> "undefined", n |-> 0, d |-> 0]

\* ToNumber: undefined converts to NaN.
ToNumber(x) == IF x.kind = "undefined" THEN NaN ELSE x

IsFinite(x) == x.kind = "fin"

\* x || y
Or(x, y) == IF x.kind \in {"undefined", "nan"} \/ (x.kind = "fin" /\ x.n = 0) THEN y ELSE x

SignOf(x) == Sign(x.n)

\* a / b
Div(a0, b0) ==
    LET a == ToNumber(a0)
        b == ToNumber(b0)
    IN  IF a.kind = "nan" \/ b.kind = "nan" THEN NaN
        ELSE IF a.kind = "inf"
        THEN IF b.kind = "inf" THEN NaN
             ELSE Infinity(IF SignOf(b) < 0 THEN -SignOf(a) ELSE SignOf(a))
        ELSE IF b.kind = "inf" THEN Num(0)
        ELSE IF b.n = 0
        THEN IF a.n = 0 THEN NaN ELSE Infinity(SignOf(a))
        ELSE Rat(a.n * b.d, a.d * b.n)

\* a * b
Mul(a0, b0) ==
    LET a == ToNumber(a0)
        b == ToNumber(b0)
    IN  IF a.kind = "nan" \/ b.kind = "nan" THEN NaN
        ELSE IF a.kind = "inf" \/ b.kind = "inf"
        THEN IF SignOf(a) * SignOf(b) = 0 THEN NaN ELSE Infinity(SignOf(a) * SignOf(b))
        ELSE Rat(a.n * b.n, a.d * b.d)

\* a + b
Add(a0, b0) ==
    LET a == ToNumber(a0)
        b == ToNumber(b0)
    IN  IF a.kind = "nan" \/ b.kind = "nan" THEN NaN
        ELSE IF a.kind = "inf"
        THEN IF b.kind = "inf" /\ b.n # a.n THEN NaN ELSE a
        ELSE IF b.kind = "inf" THEN b
        ELSE Rat(a.n * b.d + b.n * a.d, a.d * b.d)

\* a - b
Sub(a, b) == Add(a, Mul(Num(-1), b))

\* a > b; every comparison with NaN is false.
Gt(a0, b0) ==
    LET a == ToNumber(a0)
        b == ToNumber(b0)
    IN  IF a.kind = "nan" \/ b.kind = "nan" THEN FALSE
        ELSE IF a.kind = "inf" THEN a.n = 1 /\ ~(b.kind = "inf" /\ b.n = 1)
        ELSE IF b.kind = "inf" THEN b.n = -1
        ELSE a.n * b.d > b.n * a.d

\* a === b on numbers
StrictEq(a, b) == a.kind # "nan" /\ a = b

\* a >= b
Ge(a, b) == Gt(a, b) \/ (StrictEq(ToNumber(a), ToNumber(b)))

\* Math.round(x): the nearest integer, halves upwards.
MathRound(x0) ==
    LET x == ToNumber(x0)
    IN  IF x.kind # "fin" THEN x
        ELSE Num((2 * x.n + x.d) \div (2 * x.d))

\* Math.round(x * scale) / per
RoundTo(x, scale, per) == Div(MathRound(Mul(x, Num(scale))), Num(per))

-----------------------------------------------------------------------------
(* RatioCalculatorService: the ratio groups *)

Zero == Num(0)
VeryHigh == Num(999)

\* cond ? a / b : otherwise
DivOr(cond, a, b, otherwise) == IF cond THEN Div(a, b) ELSE otherwise

\* Mutant: the three liquidity ratios are divided without the guard.
calculateLiquidityRatiosUnguarded(balanceSheet, incomeStatement) ==
    LET currentAssets == Or(balanceSheet.totalCurrentAssets, Zero)
        currentLiabilities == Or(balanceSheet.totalCurrentLiabilities, Zero)
        cash == Or(balanceSheet.cash, Zero)
        inventory == Or(balanceSheet.inventory, Zero)
        revenue == Or(incomeStatement.totalRevenue, Zero)
    IN  [currentRatio |-> Div(currentAssets, currentLiabilities),
         quickRatio |-> Div(Sub(currentAssets, inventory), currentLiabilities),
         cashRatio |-> Div(cash, currentLiabilities),
         workingCapitalRatio |->
             DivOr(Gt(revenue, Zero), Sub(currentAssets, currentLiabilities), revenue, Zero)]

calculateLiquidityRatios(balanceSheet, incomeStatement) ==
    LET currentAssets == Or(balanceSheet.totalCurrentAssets, Zero)
        currentLiabilities == Or(balanceSheet.totalCurrentLiabilities, Zero)
        cash == Or(balanceSheet.cash, Zero)
        inventory == Or(balanceSheet.inventory, Zero)
        revenue == Or(incomeStatement.totalRevenue, Zero)
        quickAssets == Sub(currentAssets, inventory)
    IN  [currentRatio |-> DivOr(Gt(currentLiabilities, Zero), currentAssets, currentLiabilities, Zero),
         quickRatio |-> DivOr(Gt(currentLiabilities, Zero), quickAssets, currentLiabilities, Zero),
         cashRatio |-> DivOr(Gt(currentLiabilities, Zero), cash, currentLiabilities, Zero),
         workingCapitalRatio |->
             DivOr(Gt(revenue, Zero), Sub(currentAssets, currentLiabilities), revenue, Zero)]

calculateLeverageRatios(balanceSheet, incomeStatement) ==
    LET totalDebt == Add(Or(balanceSheet.longTermDebt, Zero), Or(balanceSheet.shortTermDebt, Zero))
        totalAssets == Or(balanceSheet.totalAssets, Zero)
        totalEquity == Or(balanceSheet.totalShareholderEquity, Zero)
        totalLiabilities == Or(balanceSheet.totalLiabilities, Zero)
        ebit == Or(incomeStatement.ebit, Or(incomeStatement.operatingIncome, Zero))
        interestExpense == Or(incomeStatement.interestExpense, Zero)
        coverage == DivOr(Gt(interestExpense, Zero), ebit, interestExpense,
                          IF Gt(ebit, Zero) THEN VeryHigh ELSE Zero)
    IN  [debtToEquity |-> DivOr(Gt(totalEquity, Zero), totalDebt, totalEquity, Zero),
         debtToAssets |-> DivOr(Gt(totalAssets, Zero), totalDebt, totalAssets, Zero),
         equityRatio |-> DivOr(Gt(totalAssets, Zero), totalEquity, totalAssets, Zero),
         debtRatio |-> DivOr(Gt(totalAssets, Zero), totalLiabilities, totalAssets, Zero),
         interestCoverage |-> coverage,
         timesInterestEarned |-> coverage]

\* cond ? (a / b) * 100 : 0
PercentOr(cond, a, b) == IF cond THEN Mul(Div(a, b), Num(100)) ELSE Zero

calculateProfitabilityRatios(incomeStatement, balanceSheet) ==
    LET revenue == Or(incomeStatement.totalRevenue, Zero)
        grossProfit == Or(incomeStatement.grossProfit, Zero)
        operatingIncome == Or(incomeStatement.operatingIncome, Zero)
        netIncome == Or(incomeStatement.netIncome, Zero)
        totalAssets == Or(balanceSheet.totalAssets, Zero)
        totalEquity == Or(balanceSheet.totalShareholderEquity, Zero)
    IN  [grossMargin |-> PercentOr(Gt(revenue, Zero), grossProfit, revenue),
         operatingMargin |-> PercentOr(Gt(revenue, Zero), operatingIncome, revenue),
         netMargin |-> PercentOr(Gt(revenue, Zero), netIncome, revenue),
         returnOnAssets |-> PercentOr(Gt(totalAssets, Zero), netIncome, totalAssets),
         returnOnEquity |-> PercentOr(Gt(totalEquity, Zero), netIncome, totalEquity),
         returnOnInvestment |->
             PercentOr(Gt(totalAssets, Zero) /\ Gt(netIncome, Zero), netIncome, totalAssets)]

calculateEfficiencyRatios(incomeStatement, balanceSheet) ==
    LET revenue == Or(incomeStatement.totalRevenue, Zero)
        totalAssets == Or(balanceSheet.totalAssets, Zero)
        inventory == Or(balanceSheet.inventory, Zero)
        costOfGoodsSold == Sub(Or(incomeStatement.totalRevenue, Zero),
                               Or(incomeStatement.grossProfit, Zero))
    IN  [assetTurnover |-> DivOr(Gt(totalAssets, Zero), revenue, totalAssets, Zero),
         inventoryTurnover |-> DivOr(Gt(inventory, Zero), costOfGoodsSold, inventory, Zero),
         receivablesTournover |-> Zero,
         workingCapitalTurnover |->
             DivOr(Gt(balanceSheet.workingCapital, Zero), revenue, balanceSheet.workingCapital, Zero)]

calculateCashFlowRatios(cashFlow, incomeStatement, balanceSheet) ==
    LET operatingCashFlow == Or(cashFlow.operatingCashflow, Zero)
        freeCashFlow == Or(cashFlow.freeCashFlow, Zero)
        revenue == Or(incomeStatement.totalRevenue, Zero)
        currentLiabilities == Or(balanceSheet.totalCurrentLiabilities, Zero)
        totalDebt == Add(Or(balanceSheet.longTermDebt, Zero), Or(balanceSheet.shortTermDebt, Zero))
    IN  [operatingCashFlowToSales |-> DivOr(Gt(revenue, Zero), operatingCashFlow, revenue, Zero),
         freeCashFlowYield |-> DivOr(Gt(revenue, Zero), freeCashFlow, revenue, Zero),
         cashFlowCoverage |->
             DivOr(Gt(currentLiabilities, Zero), operatingCashFlow, currentLiabilities, Zero),
         debtCoverage |->
             DivOr(Gt(totalDebt, Zero), operatingCashFlow, totalDebt,
                   IF Gt(operatingCashFlow, Zero) THEN VeryHigh ELSE Zero)]

calculateMarketRatios(md, incomeStatement, balanceSheet) ==
    LET marketCap == Or(md.marketCap, Zero)
        currentPrice == Or(md.currentPrice, Zero)
        netIncome == Or(incomeStatement.netIncome, Zero)
        revenue == Or(incomeStatement.totalRevenue, Zero)
        bookValue == Or(balanceSheet.totalShareholderEquity, Zero)
        sharesOutstanding == DivOr(Gt(currentPrice, Zero), marketCap, currentPrice, Zero)
        earningsPerShare == DivOr(Gt(sharesOutstanding, Zero), netIncome, sharesOutstanding, Zero)
        bookValuePerShare == DivOr(Gt(sharesOutstanding, Zero), bookValue, sharesOutstanding, Zero)
    IN  [priceToEarnings |-> DivOr(Gt(earningsPerShare, Zero), currentPrice, earningsPerShare, Zero),
         priceToBook |-> DivOr(Gt(bookValuePerShare, Zero), currentPrice, bookValuePerShare, Zero),
         priceToSales |->
             DivOr(Gt(revenue, Zero) /\ Gt(sharesOutstanding, Zero), marketCap, revenue, Zero),
         marketToBook |-> DivOr(Gt(bookValue, Zero), marketCap, bookValue, Zero),
         earningsPerShare |-> earningsPerShare,
         bookValuePerShare |-> bookValuePerShare]

-----------------------------------------------------------------------------
(* RatioCalculatorService: calculateAltmanZScore *)

SafeZone == "Safe Zone"
GreyZone == "Grey Zone"
DistressZone == "Distress Zone"
UnknownZone == "Unknown"
SafeText == "Safe Zone - Low bankruptcy risk"
GreyText == "Grey Zone - Moderate bankruptcy risk, requires monitoring"
DistressText == "Distress Zone - High bankruptcy risk"
UnknownText == "Unable to calculate Z-Score due to insufficient data"
TotalAssetsZeroMessage == "Cannot calculate Z-Score: Total assets is zero"

\* The locals of calculateAltmanZScore read from its arguments.
AltmanInputs(balanceSheet, incomeStatement, md) ==
    [totalAssets |-> Or(balanceSheet.totalAssets, Zero),
     totalLiabilities |-> Or(balanceSheet.totalLiabilities, Zero),
     workingCapital |-> Or(balanceSheet.workingCapital, Zero),
     retainedEarnings |-> Or(balanceSheet.retainedEarnings, Zero),
     ebit |-> Or(incomeStatement.ebit, Or(incomeStatement.operatingIncome, Zero)),
     marketValue |-> Or(md.marketCap, Zero),
     sales |-> Or(incomeStatement.totalRevenue, Zero)]

\* The five components A..E.
AltmanComponents(in) ==
    [A |-> Div(in.workingCapital, in.totalAssets),
     B |-> Div(in.retainedEarnings, in.totalAssets),
     C |-> Div(in.ebit, in.totalAssets),
     D |-> Div(in.marketValue, in.totalLiabilities),
     E |-> Div(in.sales, in.totalAssets)]

\* zScore, by the formula of the company type.
zScore(x, companyType) ==
    IF companyType = "manufacturing"
    THEN Add(Add(Add(Add(Mul(Rat(12, 10), x.A), Mul(Rat(14, 10), x.B)),
                     Mul(Rat(33, 10), x.C)), Mul(Rat(6, 10), x.D)), Mul(Rat(10, 10), x.E))
    ELSE Add(Add(Add(Mul(Rat(656, 100), x.A), Mul(Rat(326, 100), x.B)),
                 Mul(Rat(672, 100), x.C)), Mul(Rat(105, 100), x.D))

formulaOf(companyType) ==
    IF companyType = "manufacturing" THEN "manufacturing" ELSE "non-manufacturing"

\* The first chain of comparisons: the interpretation text.
interpretationOf(companyType, z) ==
    IF companyType = "manufacturing"
    THEN IF Gt(z, Rat(299, 100)) THEN SafeText
         ELSE IF Ge(z, Rat(18, 10)) THEN GreyText
         ELSE DistressText
    ELSE IF Gt(z, Rat(26, 10)) THEN SafeText
         ELSE IF Ge(z, Rat(11, 10)) THEN GreyText
         ELSE DistressText

\* Mutant: the manufacturing thresholds are applied to every company.
riskZoneOneThreshold(companyType, z) ==
    IF Gt(z, Rat(299, 100)) THEN SafeZone
    ELSE IF Ge(z, Rat(18, 10)) THEN GreyZone
    ELSE DistressZone

\* Mutant: a score equal to the upper threshold is classified Safe.
riskZoneInclusive(companyType, z) ==
    IF companyType = "manufacturing"
    THEN IF Ge(z, Rat(299, 100)) THEN SafeZone
         ELSE IF Ge(z, Rat(18, 10)) THEN GreyZone
         ELSE DistressZone
    ELSE IF Ge(z, Rat(26, 10)) THEN SafeZone
         ELSE IF Ge(z, Rat(11, 10)) THEN GreyZone
         ELSE DistressZone

\* The second chain of comparisons: riskZone.
riskZoneOf(companyType, z) ==
    IF companyType = "manufacturing"
    THEN IF Gt(z, Rat(299, 100)) THEN SafeZone
         ELSE IF Ge(z, Rat(18, 10)) THEN GreyZone
         ELSE DistressZone
    ELSE IF Gt(z, Rat(26, 10)) THEN SafeZone
         ELSE IF Ge(z, Rat(11, 10)) THEN GreyZone
         ELSE DistressZone

calculateConfidenceLevel(balanceSheet, incomeStatement, md) ==
    LET hasCompleteFinancials ==
            /\ Gt(balanceSheet.totalAssets, Zero)
            /\ Gt(balanceSheet.totalLiabilities, Zero)
            /\ Gt(incomeStatement.totalRevenue, Zero)
            /\ Gt(md.marketCap, Zero)
        hasKeyMetrics ==
            /\ balanceSheet.retainedEarnings # Undefined
            /\ Gt(incomeStatement.ebit, Zero)
            /\ balanceSheet.workingCapital # Undefined
    IN  IF hasCompleteFinancials /\ hasKeyMetrics THEN "High"
        ELSE IF hasCompleteFinancials THEN "Medium"
        ELSE "Low"

\* The catch block: the record returned when the computation threw.
AltmanUnknown(companyType, message) ==
    [altmanZScore |-> Zero,
     riskZone |-> UnknownZone,
     formula |-> companyType,
     companyType |-> companyType,
     interpretation |-> UnknownText,
     components |-> <<>>,
     confidence |-> "Low",
     error |-> message]

calculateAltmanZScore(balanceSheet, incomeStatement, md, companyType) ==
    LET in == AltmanInputs(balanceSheet, incomeStatement, md)
        x == AltmanComponents(in)
        z == zScore(x, companyType)
    IN  IF StrictEq(in.totalAssets, Zero)
        THEN AltmanUnknown(companyType, TotalAssetsZeroMessage)
        ELSE [altmanZScore |-> RoundTo(z, 100, 100),
              riskZone |-> riskZoneOf(companyType, z),
              formula |-> formulaOf(companyType),
              companyType |-> companyType,
              interpretation |-> interpretationOf(companyType, z),
              components |->
                  [workingCapitalToAssets |-> RoundTo(x.A, 10000, 100),
                   retainedEarningsToAssets |-> RoundTo(x.B, 10000, 100),
                   ebitToAssets |-> RoundTo(x.C, 10000, 100),
                   marketValueToLiabilities |-> RoundTo(x.D, 100, 100),
                   salesToAssets |-> RoundTo(x.E, 100, 100)],
              confidence |-> calculateConfidenceLevel(balanceSheet, incomeStatement, md)]

-----------------------------------------------------------------------------
(* RatioCalculatorService: assessDataQuality, calculateAllRatios *)

Point(cond) == IF cond THEN 1 ELSE 0

\* Mutant: the High tier only above 80.
assessDataQualityAbove(fin, md) ==
    LET is == fin.incomeStatement
        bs == fin.balanceSheet
        balances == StrictEq(ToNumber(bs.totalAssets),
                             Add(bs.totalLiabilities, bs.totalShareholderEquity))
        score == Point(Gt(is.totalRevenue, Zero))
                 + Point(is.netIncome # Zero)
                 + Point(Gt(is.ebit, Zero))
                 + Point(Gt(bs.totalAssets, Zero))
                 + Point(Gt(bs.totalShareholderEquity, Zero))
                 + Point(Gt(bs.totalCurrentAssets, Zero))
                 + Point(Gt(md.currentPrice, Zero))
                 + Point(Gt(md.marketCap, Zero))
                 + Point(Ge(bs.totalAssets, bs.totalCurrentAssets))
                 + Point(balances)
        maxScore == 3 + 3 + 2 + 2
        qualityPercentage == Mul(Div(Num(score), Num(maxScore)), Num(100))
        quality == IF Gt(qualityPercentage, Num(80)) THEN "High"
                   ELSE IF Ge(qualityPercentage, Num(60)) THEN "Medium"
                   ELSE "Low"
    IN  [score |-> MathRound(qualityPercentage),
         level |-> quality,
         issues |-> (IF balances THEN <<>> ELSE <<"Balance sheet does not balance">>)
                    \o (IF quality = "Low"
                        THEN <<"Insufficient financial data for reliable analysis">>
                        ELSE <<>>),
         recommendation |-> IF quality = "Low"
                            THEN "Results may be unreliable due to insufficient data"
                            ELSE "Data quality is sufficient for analysis"]

assessDataQuality(fin, md) ==
    LET is == fin.incomeStatement
        bs == fin.balanceSheet
        balances == StrictEq(ToNumber(bs.totalAssets),
                             Add(bs.totalLiabilities, bs.totalShareholderEquity))
        score == Point(Gt(is.totalRevenue, Zero))
                 + Point(is.netIncome # Zero)
                 + Point(Gt(is.ebit, Zero))
                 + Point(Gt(bs.totalAssets, Zero))
                 + Point(Gt(bs.totalShareholderEquity, Zero))
                 + Point(Gt(bs.totalCurrentAssets, Zero))
                 + Point(Gt(md.currentPrice, Zero))
                 + Point(Gt(md.marketCap, Zero))
                 + Point(Ge(bs.totalAssets, bs.totalCurrentAssets))
                 + Point(balances)
        maxScore == 3 + 3 + 2 + 2
        qualityPercentage == Mul(Div(Num(score), Num(maxScore)), Num(100))
        quality == IF Ge(qualityPercentage, Num(80)) THEN "High"
                   ELSE IF Ge(qualityPercentage, Num(60)) THEN "Medium"
                   ELSE "Low"
    IN  [score |-> MathRound(qualityPercentage),
         level |-> quality,
         issues |-> (IF balances THEN <<>> ELSE <<"Balance sheet does not balance">>)
                    \o (IF quality = "Low"
                        THEN <<"Insufficient financial data for reliable analysis">>
                        ELSE <<>>),
         recommendation |-> IF quality = "Low"
                            THEN "Results may be unreliable due to insufficient data"
                            ELSE "Data quality is sufficient for analysis"]

\* overview.companyType || 'non-manufacturing'
companyTypeOr(companyType) ==
    IF companyType \in {"undefined", ""} THEN "non-manufacturing" ELSE companyType

NotCalculated == [returned |-> FALSE]

\* calculateAllRatios; calculationDate (the clock) is left out.
calculateAllRatios(fin, md, ov) ==
    [returned |-> TRUE,
     ratios |->
        [liquidity |-> calculateLiquidityRatios(fin.balanceSheet, fin.incomeStatement),
         leverage |-> calculateLeverageRatios(fin.balanceSheet, fin.incomeStatement),
         profitability |-> calculateProfitabilityRatios(fin.incomeStatement, fin.balanceSheet),
         efficiency |-> calculateEfficiencyRatios(fin.incomeStatement, fin.balanceSheet),
         cashFlow |-> calculateCashFlowRatios(fin.cashFlow, fin.incomeStatement, fin.balanceSheet),
         market |-> calculateMarketRatios(md, fin.incomeStatement, fin.balanceSheet)],
     distressScore |-> calculateAltmanZScore(fin.balanceSheet, fin.incomeStatement, md,
                                              companyTypeOr(ov.companyType)),
     dataQuality |-> assessDataQuality(fin, md)]

-----------------------------------------------------------------------------
(* The ratio engine: inputs and action *)

\* A set of statements as getFinancialStatements delivers them; the
\* figures the claims do not turn on are fixed.
Statements(ta, tl, wc, re, ebit, sales, tcl, interest) ==
    [balanceSheet |->
        [totalAssets |-> ta, totalCurrentAssets |-> Num(500),
         totalCurrentLiabilities |-> tcl, totalLiabilities |-> tl,
         totalShareholderEquity |-> Num(400), retainedEarnings |-> re,
         workingCapital |-> wc, longTermDebt |-> Num(250), shortTermDebt |-> Zero,
         cash |-> Num(100), inventory |-> Num(50)],
     incomeStatement |->
        [totalRevenue |-> sales, grossProfit |-> Num(300), operatingIncome |-> Num(100),
         netIncome |-> Num(80), ebit |-> ebit, interestExpense |-> interest],
     cashFlow |-> [operatingCashflow |-> Num(120), freeCashFlow |-> Num(60)]]

\* Statements over a grid of figures, zero and missing ones included.
GridStatements ==
    {Statements(ta, tl, wc, Num(150), ebit, sales, tcl, interest) :
        ta \in {Undefined, Zero, Num(1000)}, tl \in {Zero, Num(600)},
        wc \in {Num(-100), Num(200)}, ebit \in {Undefined, Zero, Num(100)},
        sales \in {Zero, Num(800)}, tcl \in {Zero, Num(300)},
        interest \in {Zero, Num(20)}}

\* Statements whose score falls on and next to the zone thresholds: the
\* only non-zero component is E (manufacturing, 1.0 * sales / 1000) or A
\* (non-manufacturing, 6.56 * workingCapital / 6560). On these figures the
\* double-precision sum compares with the thresholds as the exact one does.
OnlyComponent(ta, wc, sales) ==
    LET s == Statements(Num(ta), Num(600), Num(wc), Zero, Zero, Num(sales), Num(300), Zero)
    IN  [s EXCEPT !.incomeStatement.operatingIncome = Zero]

ThresholdStatements ==
    {OnlyComponent(1000, 0, sales) : sales \in {2990, 2989, 1800, 1799}}
    \cup {OnlyComponent(6560, wc, 0) : wc \in {2600, 2599, 1100, 1099}}

MarketData(marketCap) == [marketCap |-> marketCap, currentPrice |-> Num(10)]

\* The companyType of the identity handed over: classified, missing (the
\* name-search identity), or differently capitalised.
CompanyTypes == {"manufacturing", "non-manufacturing", "undefined", "Manufacturing"}

CalculateAllRatios ==
    /\ ~calculatedRatios.returned
    /\ calculatedRatios' = calculateAllRatios(argFinancials, argMarketData, argOverview)
    /\ UNCHANGED <<argFinancials, argMarketData, argOverview>>
    /\ UNCHANGED <<batchVars, svcVars, portfolioVars, typeVars>>

\* No ratio calculation in progress.
RatioQuiet ==
    /\ argFinancials = <<>>
    /\ argMarketData = <<>>
    /\ argOverview = <<>>
    /\ calculatedRatios = NotCalculated

-----------------------------------------------------------------------------
(* generatePortfolioAnalysis as a function of the successful results *)

\* Largest number of successful results summarised.
MaxPortfolio == 10

\* A successful result, as far as the summary reads it.
SuccessOf(ticker) ==
    [success |-> TRUE, analysis |-> [distressScore |-> WorldDistressScore(ticker)]]

\* successfulResults holding safe Safe-zone, grey Grey-zone, distress
\* Distress-zone and unknown Unknown-zone companies.
Portfolio(safe, grey, distress, unknown) ==
    [k \in 1 .. (safe + grey + distress + unknown) |->
        IF k <= safe THEN SuccessOf(<<"A", "B">>)
        ELSE IF k <= safe + grey THEN SuccessOf(<<"B", "A">>)
        ELSE IF k <= safe + grey + distress THEN SuccessOf(<<"B">>)
        ELSE SuccessOf(<<"A">>)]

NotGenerated == [totalCompanies |-> 0]

GeneratePortfolioAnalysis ==
    /\ portfolioAnalysis = NotGenerated
    /\ portfolioAnalysis' = generatePortfolioAnalysis(argCompanies)
    /\ UNCHANGED argCompanies
    /\ UNCHANGED <<batchVars, svcVars, ratioVars, typeVars>>

\* No summary being computed.
PortfolioQuiet ==
    /\ argCompanies = <<>>
    /\ portfolioAnalysis = NotGenerated

-----------------------------------------------------------------------------
(* determineCompanyType *)

\* A text handed over by a provider, and a field the answer lacks.
Text(chars) == [text |-> chars]
MissingText == [missing |-> TRUE]

\* `${x}`: a missing value is spelled out.
TemplateOf(x) == IF "text" \in DOMAIN x THEN x.text ELSE <<"u", "n", "d", "e", "f", "i", "n", "e", "d">>

\* text.includes(keyword)
includes(text, keyword) ==
    \E k \in 1 .. (Len(text) - Len(keyword) + 1) :
        SubSeq(text, k, k + Len(keyword) - 1) = keyword

manufacturingKeywords ==
    { <<"m", "a", "n", "u", "f", "a", "c", "t", "u", "r", "i", "n", "g">>,
      <<"a", "u", "t", "o", "m", "o", "t", "i", "v", "e">>,
      <<"a", "e", "r", "o", "s", "p", "a", "c", "e">>,
      <<"i", "n", "d", "u", "s", "t", "r", "i", "a", "l">>,
      <<"m", "a", "c", "h", "i", "n", "e", "r", "y">>,
      <<"c", "o", "n", "s", "t", "r", "u", "c", "t", "i", "o", "n">>,
      <<"m", "a", "t", "e", "r", "i", "a", "l", "s">>,
      <<"c", "h", "e", "m", "i", "c", "a", "l", "s">>,
      <<"s", "t", "e", "e", "l">>,
      <<"m", "i", "n", "i", "n", "g">>,
      <<"o", "i", "l">>,
      <<"e", "n", "e", "r", "g", "y">>,
      <<"u", "t", "i", "l", "i", "t", "i", "e", "s">>,
      <<"t", "r", "a", "n", "s", "p", "o", "r", "t", "a", "t", "i", "o", "n">>,
      <<"t", "e", "x", "t", "i", "l", "e", "s">>,
      <<"f", "o", "o", "d">>,
      <<"b", "e", "v", "e", "r", "a", "g", "e">> }

\* Mutant: industry and sector are joined without the blank.
determineCompanyTypeJoined(industry, sector) ==
    LET text == toLowerCase(TemplateOf(industry) \o TemplateOf(sector))
        isManufacturing == \E keyword \in manufacturingKeywords : includes(text, keyword)
    IN  IF isManufacturing THEN "manufacturing" ELSE "non-manufacturing"

determineCompanyType(industry, sector) ==
    LET text == toLowerCase(TemplateOf(industry) \o <<" ">> \o TemplateOf(sector))
        isManufacturing == \E keyword \in manufacturingKeywords : includes(text, keyword)
    IN  IF isManufacturing THEN "manufacturing" ELSE "non-manufacturing"

\* Industry and sector texts as providers spell them: capitalised, in
\* capitals, with a keyword inside a longer word, halves of a keyword, and
\* missing.
Industries ==
    { MissingText,
      Text(<<"S", "t", "e", "e", "l">>),
      Text(<<"M", "I", "N", "I", "N", "G">>),
      Text(<<"S", "o", "f", "t", "w", "a", "r", "e">>),
      Text(<<"S", "e", "a", "f", "o", "o", "d">>),
      Text(<<"A", "u", "t", "o">>),
      Text(<<"B", "a", "n", "k", "s">>),
      Text(<<"F", "o", "i", "l">>) }

Sectors ==
    { MissingText,
      Text(<<"T", "e", "c", "h", "n", "o", "l", "o", "g", "y">>),
      Text(<<"B", "a", "s", "i", "c", " ", "M", "a", "t", "e", "r", "i", "a", "l", "s">>),
      Text(<<"m", "o", "t", "i", "v", "e">>),
      Text(<<"E", "n", "e", "r", "g", "y">>),
      Text(<<"F", "i", "n", "a", "n", "c", "i", "a", "l", " ", "S", "e", "r", "v", "i", "c", "e", "s">>),
      Text(<<"U", "T", "I", "L", "I", "T", "I", "E", "S">>),
      Text(<<"U", "n", "k", "n", "o", "w", "n">>) }

NotDetermined == "pending"

DetermineCompanyType ==
    /\ determinedType = NotDetermined
    /\ determinedType' = determineCompanyType(argIndustry, argSector)
    /\ UNCHANGED <<argIndustry, argSector>>
    /\ UNCHANGED <<batchVars, svcVars, ratioVars, portfolioVars>>

\* No classification being made.
TypeQuiet ==
    /\ argIndustry = MissingText
    /\ argSector = MissingText
    /\ determinedType = NotDetermined

-----------------------------------------------------------------------------
(* Specifications *)

\* The data service at rest; the batch specification leaves it alone.
SvcQuiet ==
    /\ cache = <<>>
    /\ requestsToday = <<>>
    /\ apiKey = <<>>
    /\ call = <<>>
    /\ opsStarted = 0
    /\ netCalls = <<>>
    /\ log = <<>>

Init ==
    /\ companies \in {[k \in 1 .. n |-> RosterAt(k)] : n \in 0 .. MaxBatch}
    /\ bpc = "received"
    /\ i = 0
    /\ item = [k \in 1 .. Len(companies) |-> Idle]
    /\ results = <<>>
    /\ response = NoResponse
    /\ SvcQuiet
    /\ RatioQuiet
    /\ PortfolioQuiet
    /\ TypeQuiet

Next == BatchNext

Spec == Init /\ [][Next]_vars

\* Every provider call answers or runs into its timeout, the pause timer
\* fires and the event loop runs every continuation that is ready: a step
\* that stays possible is eventually taken.
FairSpec == Spec /\ WF_vars(Next)

\* The batch handler at rest; the service specification leaves it alone.
BatchQuiet ==
    /\ companies = <<>>
    /\ bpc = "idle"
    /\ i = 0
    /\ item = <<>>
    /\ results = <<>>
    /\ response = NoResponse

\* The constructor leaves every counter at 0; a process that has served
\* traffic carries the count that traffic left, and every call counted was
\* issued.
SvcInit ==
    /\ BatchQuiet
    /\ RatioQuiet
    /\ PortfolioQuiet
    /\ TypeQuiet
    /\ cache = <<>>
    /\ apiKey \in [Providers -> BOOLEAN]
    /\ ~apiKey[Yahoo]
    /\ ~apiKey[Finnhub]
    /\ requestsToday \in [Providers -> {0} \cup ((FmpDailyLimit - Headroom) .. FmpDailyLimit)]
    /\ \A p \in Providers \ {FMP} : requestsToday[p] = 0
    /\ netCalls = requestsToday
    /\ call = [c \in Callers |-> NoCall]
    /\ opsStarted = 0
    /\ log = [c \in Callers |-> <<>>]

SvcSpec == SvcInit /\ [][SvcNext]_vars

\* calculateAllRatios applied to one set of statements, market data and
\* identity.
RatioInit ==
    /\ BatchQuiet
    /\ SvcQuiet
    /\ PortfolioQuiet
    /\ TypeQuiet
    /\ \/ /\ argFinancials \in GridStatements
          /\ argMarketData \in {MarketData(Zero), MarketData(Num(900))}
       \/ /\ argFinancials \in ThresholdStatements
          /\ argMarketData = MarketData(Zero)
    /\ argOverview \in {[companyType |-> t] : t \in CompanyTypes}
    /\ calculatedRatios = NotCalculated

RatioNext == CalculateAllRatios

RatioSpec == RatioInit /\ [][RatioNext]_vars

\* The summary is computed only over a non-empty list of successes (the
\* route answers 400 otherwise).
PortfolioInit ==
    /\ BatchQuiet
    /\ SvcQuiet
    /\ RatioQuiet
    /\ TypeQuiet
    /\ argCompanies \in
          {Portfolio(safe, grey, distress, unknown) :
              safe \in 0 .. MaxPortfolio, grey \in 0 .. MaxPortfolio,
              distress \in 0 .. MaxPortfolio, unknown \in 0 .. MaxPortfolio}
    /\ Len(argCompanies) \in 1 .. MaxPortfolio
    /\ portfolioAnalysis = NotGenerated

PortfolioNext == GeneratePortfolioAnalysis

PortfolioSpec == PortfolioInit /\ [][PortfolioNext]_vars

TypeInit ==
    /\ BatchQuiet
    /\ SvcQuiet
    /\ RatioQuiet
    /\ PortfolioQuiet
    /\ argIndustry \in Industries
    /\ argSector \in Sectors
    /\ determinedType = NotDetermined

TypeNext == DetermineCompanyType

TypeSpec == TypeInit /\ [][TypeNext]_vars

-----------------------------------------------------------------------------
(* Claims about the batch run (specification Spec) *)

RECURSIVE Ascending(_, _)
\* The members of S up to n, in ascending order.
Ascending(S, n) ==
    IF n = 0 THEN <<>>
    ELSE IF n \in S THEN Append(Ascending(S, n - 1), n)
    ELSE Ascending(S, n - 1)

FulfilledSet == {k \in Positions : item[k].pc = "fulfilled"}
RejectedSet == {k \in Positions : item[k].pc = "rejected"}
GroupOf(k) == (k - 1) \div batchSize
BatchDone == bpc = "responded" /\ Len(companies) >= 1

\* C1: a batch of N >= 1 inputs yields exactly one outcome record per input,
\* the i-th record telling whether the i-th pipeline was fulfilled; the
\* successes and the failures partition the inputs
\* (successfulAnalyses + failedAnalyses = totalCompanies = N), and every item
\* of every group has been run whatever the other items did.
C1_OneOutcomePerInput ==
    /\ bpc \in {"group", "pause"} => Len(results) = Min(i + (IF bpc = "pause" THEN batchSize ELSE 0), Len(companies))
    /\ BatchDone =>
          /\ Len(results) = Len(companies)
          /\ \A k \in Positions :
                /\ Settled(item[k])
                /\ results[k].success = (item[k].pc = "fulfilled")
          /\ FulfilledSet \cap RejectedSet = {}
          /\ FulfilledSet \cup RejectedSet = Positions
          /\ response.status = 200 =>
                /\ response.totalCompanies = Len(companies)
                /\ response.successfulAnalyses = Cardinality(FulfilledSet)
                /\ response.failedAnalyses = Cardinality(RejectedSet)
                /\ response.successfulAnalyses + response.failedAnalyses = response.totalCompanies
                /\ Len(response.results) = Cardinality(FulfilledSet)
          /\ response.status = 400 =>
                Len(response.failedCompanies) = Len(companies)

\* C1 witness: a finished batch of two groups in which the first item failed
\* and a later item of the same group and an item of the second group succeeded.
C1_Witness ==
    /\ BatchDone
    /\ Len(companies) > batchSize
    /\ item[1].pc = "rejected"
    /\ item[2].pc = "fulfilled"
    /\ item[batchSize + 1].pc = "fulfilled"

\* C2: the batch reports failure exactly when no item succeeded, and then
\* lists every input with a non-empty reason; otherwise it reports success
\* and lists every failed input, in order, with a non-empty reason.
C2_FailureIffNoSuccess ==
    BatchDone =>
       LET failed == Ascending(RejectedSet, Len(companies))
           listed == IF response.status = 400 THEN response.failedCompanies
                     ELSE IF "warnings" \in DOMAIN response THEN response.warnings
                     ELSE <<>>
       IN  /\ response.status \in {200, 400}
           /\ (response.status = 400) <=> (FulfilledSet = {})
           /\ response.status = 200 => response.success = TRUE
           /\ Len(listed) = Len(failed)
           /\ \A m \in DOMAIN listed :
                 /\ listed[m].company = JsString(companies[failed[m]])
                 /\ listed[m].error # ""

\* C2 witness: every item failed, one of them with an empty error message.
C2_Witness ==
    /\ BatchDone
    /\ response.status = 400
    /\ Len(companies) >= 2
    /\ \E k \in Positions : item[k].fin = "threw" /\ item[k].err = ""

\* C3: at most batchSize pipelines are active, the active ones belong to
\* the current group, and an item has started only if every item of the
\* earlier groups has settled.
C3_BoundedGroups ==
    /\ Cardinality({k \in Positions : Active(item[k])}) <= batchSize
    /\ \A k \in Positions :
          item[k].pc # "idle" =>
             \A j \in Positions : GroupOf(j) < GroupOf(k) => Settled(item[j])
    /\ \A k \in Positions : Active(item[k]) => k \in Slice(companies, i, batchSize)

\* C3 witness: an item of the second group is running.
C3_Witness ==
    /\ Len(companies) > batchSize
    /\ Active(item[batchSize + 1])

\* C4 (as claimed): the i-th outcome record is labelled with the i-th input
\* string and carries the outcome of that input's own pipeline.
C4_LabelledWithInput ==
    \A k \in DOMAIN results :
       /\ results[k].company = JsString(companies[k])
       /\ results[k].success = (item[k].pc = "fulfilled")
       /\ results[k].success => results[k].analysis = analyzeCompanyValue(companies[k]).analysis

RECURSIVE SumScores(_)
SumScores(S) ==
    IF S = {} THEN 0
    ELSE LET k == CHOOSE x \in S : TRUE
         IN  WorldDistressScore(WorldSymbol(companies[k])).altmanZScore + SumScores(S \ {k})

ZoneSet(zone) ==
    {k \in FulfilledSet : WorldDistressScore(WorldSymbol(companies[k])).riskZone = zone}

\* C5: the portfolio summary exists only once every item has settled, and
\* it counts the fulfilled items only: totalCompanies, the three zone counts
\* and the average Z-score are those of the fulfilled items.
C5_PortfolioOverSuccesses ==
    "portfolioSummary" \in DOMAIN response =>
       LET p == response.portfolioSummary
       IN  /\ \A k \in Positions : Settled(item[k])
           /\ p.totalCompanies = Cardinality(FulfilledSet)
           /\ p.riskDistribution.safeZone.count = Cardinality(ZoneSet("Safe Zone"))
           /\ p.riskDistribution.greyZone.count = Cardinality(ZoneSet("Grey Zone"))
           /\ p.riskDistribution.distressZone.count = Cardinality(ZoneSet("Distress Zone"))
           /\ p.averageZScore = RoundDiv(SumScores(FulfilledSet), Cardinality(FulfilledSet))

\* C5 witness: a summary over a batch in which the Distress-zone company
\* failed and other companies succeeded.
C5_Witness ==
    /\ "portfolioSummary" \in DOMAIN response
    /\ \E k \in RejectedSet :
          WorldDistressScore(WorldSymbol(companies[k])).riskZone = "Distress Zone"
    /\ Cardinality(FulfilledSet) >= 2

-----------------------------------------------------------------------------
(* Claims about the data service (SvcSpec) *)

ResolveCalls == {c \in Callers : call[c].op = "resolveCompanyTicker"}

\* C6: a resolveCompanyTicker call that starts while a resolution of the
\* same normalized input is cached (the earlier call returned, the TTL has
\* not elapsed) returns that identity and issues no provider call.
C6_CachedResolutionReused ==
    \A c \in ResolveCalls :
        call[c].prior # {} =>
            /\ call[c].pc = "returned"
            /\ call[c].result \in call[c].prior
            /\ log[c] = <<>>

\* C7: in no step is a network call issued to a provider whose
\* requestsToday has reached its dailyLimit.
C7_NoCallOnceExhausted ==
    [][\A p \in Providers :
          requestsToday[p] >= dailyLimit(p) => netCalls'[p] = netCalls[p]]_vars

\* C8: in every interleaving of the callers, the number of network calls
\* issued to a provider stays within that provider's dailyLimit.
C8_QuotaNeverOverspent ==
    \A p \in Providers : netCalls[p] <= dailyLimit(p)

\* The providers an operation can draw on: those with a key and quota left
\* (Yahoo, for prices, needs no key).
Available(op) ==
    {p \in {FMP, AV} : apiKey[p] /\ requestsToday[p] < dailyLimit(p)}
        \cup (IF op = "getCurrentPrice" THEN {Yahoo} ELSE {})

Tried(c) == {log[c][n][1] : n \in DOMAIN log[c]}

\* C9: an error of getCompanyOverview, getFinancialStatements or
\* getCurrentPrice reaches the caller only after every available provider
\* has been tried.
C9_ErrorOnlyAfterEveryProvider ==
    \A c \in Callers :
        (/\ call[c].op \in {"getCompanyOverview", "getFinancialStatements", "getCurrentPrice"}
         /\ call[c].pc = "threw")
            => Available(call[c].op) \subseteq Tried(c)

StepOf(e) ==
    IF e[2] = "search" THEN 1
    ELSE IF e[2] = "SYMBOL_SEARCH" THEN 3
    ELSE IF e[3] = "direct" THEN 2
    ELSE 1

StepsInOrder(l) ==
    \A m, n \in DOMAIN l : m < n => StepOf(l[m]) <= StepOf(l[n])

\* C11: a resolution that finds its input in the cache calls no provider;
\* otherwise its provider calls follow the order FMP name search, direct
\* overview lookup, Alpha Vantage name search (the name searches once
\* each), and once it has returned an identity it calls nothing more.
C11_StepsInOrder ==
    [][\A c \in Callers :
          call'[c].op = "resolveCompanyTicker" =>
              /\ StepsInOrder(log'[c])
              /\ Cardinality({n \in DOMAIN log'[c] : log'[c][n][2] = "search"}) <= 1
              /\ Cardinality({n \in DOMAIN log'[c] : log'[c][n][2] = "SYMBOL_SEARCH"}) <= 1
              /\ (call[c].op = "none" /\ TickerKey(call'[c].arg) \in DOMAIN cache
                     => call'[c].pc = "returned" /\ log'[c] = <<>>)
              /\ (call[c].pc = "returned" => log'[c] = log[c] /\ call'[c] = call[c])]_vars

\* A resolution that returned the identity found by its direct lookup,
\* after the FMP name search had found nothing.
C11_Witness ==
    \E c \in ResolveCalls :
        /\ call[c].pc = "returned"
        /\ \E n \in DOMAIN log[c] : StepOf(log[c][n]) = 1
        /\ StepOf(log[c][Len(log[c])]) = 2

\* C12: a resolution of a ticker-shaped input that ends in the resolution
\* error has tried the Alpha Vantage name search (Alpha Vantage configured).
C12_TickerFallsBackToNameSearch ==
    \A c \in ResolveCalls :
        (/\ call[c].pc = "threw"
         /\ LooksLikeTicker(normalizedInput(call[c].arg))
         /\ apiKey[AV])
            => \E n \in DOMAIN log[c] : log[c][n][2] = "SYMBOL_SEARCH"

\* C13: every identity a resolution returns carries a companyType that is
\* manufacturing or non-manufacturing.
C13_IdentityHasCompanyType ==
    \A c \in ResolveCalls :
        call[c].pc = "returned" =>
            call[c].result.companyType \in {"manufacturing", "non-manufacturing"}

\* C14: no step changes the value cached under a resolver key while the
\* entry is in the cache.
C14_CachedIdentityImmutable ==
    [][\A key \in DOMAIN cache \cap DOMAIN cache' :
          key.kind = "ticker" => cache'[key] = cache[key]]_vars

-----------------------------------------------------------------------------
(* Claims about the ratio engine (RatioSpec) *)

Returned == calculatedRatios.returned
Distress == calculatedRatios.distressScore
TheInputs ==
    AltmanInputs(argFinancials.balanceSheet, argFinancials.incomeStatement, argMarketData)
TheComponents == AltmanComponents(TheInputs)
TheType == companyTypeOr(argOverview.companyType)
TotalAssetsPositive == Gt(TheInputs.totalAssets, Zero)

Lt(a, b) == Gt(b, a)
Le(a, b) == Ge(b, a)

\* C15: every number of the ratio bundle and of the distress score (the
\* Z-score and its components) is finite.
C15_EveryValueFinite ==
    Returned =>
        /\ \A g \in DOMAIN calculatedRatios.ratios :
              \A f \in DOMAIN calculatedRatios.ratios[g] :
                  IsFinite(calculatedRatios.ratios[g][f])
        /\ IsFinite(Distress.altmanZScore)
        /\ \A f \in DOMAIN Distress.components : IsFinite(Distress.components[f])

\* C16: with totalAssets 0 or missing the distress score is Unknown, has
\* a non-empty explanation and no numeric Z-score, and the ratio bundle
\* and the data quality are returned with it.
C16_UnknownWithoutScore ==
    (Returned /\ TheInputs.totalAssets = Zero) =>
        /\ Distress.riskZone = UnknownZone
        /\ Distress.interpretation # ""
        /\ Distress.error # ""
        /\ Distress.altmanZScore.kind \notin {"fin", "inf", "nan"}
        /\ DOMAIN calculatedRatios.ratios # {}
        /\ calculatedRatios.dataQuality.level \in {"High", "Medium", "Low"}

\* The variants as the specification tabulates them: weights of A..E and
\* the two thresholds.
VariantWeights(variant) ==
    IF variant = "manufacturing"
    THEN [A |-> Rat(12, 10), B |-> Rat(14, 10), C |-> Rat(33, 10), D |-> Rat(6, 10), E |-> Num(1)]
    ELSE [A |-> Rat(656, 100), B |-> Rat(326, 100), C |-> Rat(672, 100), D |-> Rat(105, 100),
          E |-> Zero]

VariantUpper(variant) == IF variant = "manufacturing" THEN Rat(299, 100) ELSE Rat(26, 10)
VariantLower(variant) == IF variant = "manufacturing" THEN Rat(18, 10) ELSE Rat(11, 10)

\* The weighted sum of the components; a component of weight 0 is left out.
WeightedSum(w, x) ==
    LET four == Add(Add(Add(Mul(w.A, x.A), Mul(w.B, x.B)), Mul(w.C, x.C)), Mul(w.D, x.D))
    IN  IF w.E = Zero THEN four ELSE Add(four, Mul(w.E, x.E))

ZoneNamedBy(text) ==
    CASE text = SafeText -> SafeZone
      [] text = GreyText -> GreyZone
      [] text = DistressText -> DistressZone
      [] OTHER -> UnknownZone

\* C17: in a distress score that is not Unknown the formula is
\* manufacturing exactly for companyType 'manufacturing', the reported
\* score is the sum weighted with that formula's weights, the zone follows
\* from the score by that formula's thresholds, and the interpretation
\* names the zone.
C17_ZoneByVariant ==
    (Returned /\ Distress.riskZone # UnknownZone) =>
        LET z == WeightedSum(VariantWeights(Distress.formula), TheComponents)
        IN  /\ Distress.formula \in {"manufacturing", "non-manufacturing"}
            /\ (Distress.formula = "manufacturing") = (Distress.companyType = "manufacturing")
            /\ Distress.altmanZScore = RoundTo(z, 100, 100)
            /\ Distress.riskZone =
                  (IF Gt(z, VariantUpper(Distress.formula)) THEN SafeZone
                   ELSE IF Ge(z, VariantLower(Distress.formula)) THEN GreyZone
                   ELSE DistressZone)
            /\ ZoneNamedBy(Distress.interpretation) = Distress.riskZone

\* A company type other than the two classified ones, scored with the
\* non-manufacturing formula on the lower non-manufacturing threshold.
C17_Witness ==
    /\ Returned
    /\ Distress.companyType = "Manufacturing"
    /\ Distress.formula = "non-manufacturing"
    /\ Distress.riskZone = GreyZone
    /\ WeightedSum(VariantWeights("non-manufacturing"), TheComponents) = Rat(11, 10)

\* C18: for a manufacturing company with totalAssets > 0 the zone is Safe
\* exactly when Z > 2.99, Grey exactly when 1.8 <= Z <= 2.99 and Distress
\* exactly when Z < 1.8, Z being 1.2A + 1.4B + 3.3C + 0.6D + 1.0E.
C18_ManufacturingZones ==
    (Returned /\ TheType = "manufacturing" /\ TotalAssetsPositive) =>
        LET x == TheComponents
            z == Add(Add(Add(Add(Mul(Rat(12, 10), x.A), Mul(Rat(14, 10), x.B)),
                             Mul(Rat(33, 10), x.C)), Mul(Rat(6, 10), x.D)), x.E)
        IN  /\ (Distress.riskZone = SafeZone) = Gt(z, Rat(299, 100))
            /\ (Distress.riskZone = GreyZone) = (Ge(z, Rat(18, 10)) /\ Le(z, Rat(299, 100)))
            /\ (Distress.riskZone = DistressZone) = Lt(z, Rat(18, 10))

\* C19: for a non-manufacturing company with totalAssets > 0 the zone is
\* Safe exactly when Z > 2.6, Grey exactly when 1.1 <= Z <= 2.6 and
\* Distress exactly when Z < 1.1, Z being 6.56A + 3.26B + 6.72C + 1.05D;
\* another revenue gives the same score and zone; the example of the
\* specification scores 4.048, Safe.
C19_NonManufacturingZones ==
    (Returned /\ TheType = "non-manufacturing" /\ TotalAssetsPositive) =>
        LET x == TheComponents
            z == Add(Add(Add(Mul(Rat(656, 100), x.A), Mul(Rat(326, 100), x.B)),
                         Mul(Rat(672, 100), x.C)), Mul(Rat(105, 100), x.D))
            bs == argFinancials.balanceSheet
            is == argFinancials.incomeStatement
        IN  /\ (Distress.riskZone = SafeZone) = Gt(z, Rat(26, 10))
            /\ (Distress.riskZone = GreyZone) = (Ge(z, Rat(11, 10)) /\ Le(z, Rat(26, 10)))
            /\ (Distress.riskZone = DistressZone) = Lt(z, Rat(11, 10))
            /\ \A revenue \in {Zero, Num(800), Num(2990)} :
                  LET other == calculateAltmanZScore(bs, [is EXCEPT !.totalRevenue = revenue],
                                                     argMarketData, TheType)
                  IN  /\ other.altmanZScore = Distress.altmanZScore
                      /\ other.riskZone = Distress.riskZone
            /\ (/\ TheInputs.totalAssets = Num(1000)
                /\ TheInputs.workingCapital = Num(200)
                /\ TheInputs.retainedEarnings = Num(150)
                /\ TheInputs.ebit = Num(100)
                /\ TheInputs.totalLiabilities = Num(600)
                /\ TheInputs.marketValue = Num(900))
                   => z = Rat(4048, 1000) /\ Distress.riskZone = SafeZone

\* The score computed for the state's inputs, and the zone claimed for a
\* score equal to value.
TheScore == zScore(TheComponents, TheType)
ScoreIs(variant, value) ==
    /\ Returned
    /\ TotalAssetsPositive
    /\ formulaOf(TheType) = variant
    /\ TheScore = value

\* C20, boundary list of the specification: a score equal to the upper
\* threshold (2.99, 2.6) is Safe, one thousandth below it Grey; the lower
\* threshold (1.8, 1.1) is Grey, one thousandth below it Distress.
C20_ThresholdsAsStated ==
    /\ ScoreIs("manufacturing", Rat(2990, 1000)) => Distress.riskZone = SafeZone
    /\ ScoreIs("manufacturing", Rat(2989, 1000)) => Distress.riskZone = GreyZone
    /\ ScoreIs("manufacturing", Rat(1800, 1000)) => Distress.riskZone = GreyZone
    /\ ScoreIs("manufacturing", Rat(1799, 1000)) => Distress.riskZone = DistressZone
    /\ ScoreIs("non-manufacturing", Rat(2600, 1000)) => Distress.riskZone = SafeZone
    /\ ScoreIs("non-manufacturing", Rat(2599, 1000)) => Distress.riskZone = GreyZone
    /\ ScoreIs("non-manufacturing", Rat(1100, 1000)) => Distress.riskZone = GreyZone
    /\ ScoreIs("non-manufacturing", Rat(1099, 1000)) => Distress.riskZone = DistressZone

\* C20, with strict upper thresholds: a score equal to the upper threshold
\* (2.99, 2.6) is Grey, as is one a thousandth below it; the lower
\* threshold (1.8, 1.1) is Grey, one thousandth below it Distress.
C20_ThresholdsExact ==
    /\ ScoreIs("manufacturing", Rat(2990, 1000)) => Distress.riskZone = GreyZone
    /\ ScoreIs("manufacturing", Rat(2989, 1000)) => Distress.riskZone = GreyZone
    /\ ScoreIs("manufacturing", Rat(1800, 1000)) => Distress.riskZone = GreyZone
    /\ ScoreIs("manufacturing", Rat(1799, 1000)) => Distress.riskZone = DistressZone
    /\ ScoreIs("non-manufacturing", Rat(2600, 1000)) => Distress.riskZone = GreyZone
    /\ ScoreIs("non-manufacturing", Rat(2599, 1000)) => Distress.riskZone = GreyZone
    /\ ScoreIs("non-manufacturing", Rat(1100, 1000)) => Distress.riskZone = GreyZone
    /\ ScoreIs("non-manufacturing", Rat(1099, 1000)) => Distress.riskZone = DistressZone

\* A manufacturing company scored exactly 2.99.
C20_Witness ==
    /\ ScoreIs("manufacturing", Rat(2990, 1000))
    /\ Distress.altmanZScore = Rat(299, 100)
    /\ Distress.riskZone = GreyZone

CurrentLiabilitiesZero ==
    /\ Returned
    /\ Or(argFinancials.balanceSheet.totalCurrentLiabilities, Zero) = Zero

\* C21: with current liabilities 0 the liquidity group has currentRatio,
\* quickRatio and cashRatio equal to 0.
C21_LiquidityZero ==
    CurrentLiabilitiesZero =>
        /\ calculatedRatios.ratios.liquidity.currentRatio = Zero
        /\ calculatedRatios.ratios.liquidity.quickRatio = Zero
        /\ calculatedRatios.ratios.liquidity.cashRatio = Zero

\* Current liabilities 0 beside positive current assets and cash.
C21_Witness ==
    /\ CurrentLiabilitiesZero
    /\ Gt(argFinancials.balanceSheet.totalCurrentAssets, Zero)
    /\ Gt(argFinancials.balanceSheet.cash, Zero)
    /\ calculatedRatios.ratios.liquidity.currentRatio = Zero
    /\ calculatedRatios.ratios.liquidity.cashRatio = Zero

\* The ten checks of the data-quality assessment, as the specification
\* lists them: three on the income statement, three on the balance sheet,
\* two on the market data, two on consistency.
QualityChecks ==
    LET is == argFinancials.incomeStatement
        bs == argFinancials.balanceSheet
    IN  << Gt(is.totalRevenue, Zero), is.netIncome # Zero, Gt(is.ebit, Zero),
           Gt(bs.totalAssets, Zero), Gt(bs.totalShareholderEquity, Zero),
           Gt(bs.totalCurrentAssets, Zero),
           Gt(argMarketData.currentPrice, Zero), Gt(argMarketData.marketCap, Zero),
           Ge(bs.totalAssets, bs.totalCurrentAssets),
           StrictEq(ToNumber(bs.totalAssets), Add(bs.totalLiabilities, bs.totalShareholderEquity)) >>

UnreliableText == "Results may be unreliable due to insufficient data"

\* C24: the data-quality score is ten times the number of the 10 checks
\* that pass, within 0..100; the tier is High exactly from 80, Medium
\* exactly from 60 to below 80, Low otherwise, and the recommendation is
\* the unreliable-results one exactly at Low.
C24_QualityTiers ==
    Returned =>
        LET q == calculatedRatios.dataQuality
            points == Cardinality({k \in DOMAIN QualityChecks : QualityChecks[k]})
        IN  /\ Len(QualityChecks) = 10
            /\ q.score = Num((points * 100) \div 10)
            /\ Ge(q.score, Zero) /\ Le(q.score, Num(100))
            /\ (q.level = "High") = Ge(q.score, Num(80))
            /\ (q.level = "Medium") = (Ge(q.score, Num(60)) /\ Lt(q.score, Num(80)))
            /\ (q.level = "Low") = Lt(q.score, Num(60))
            /\ (q.recommendation = UnreliableText) = (q.level = "Low")

\* An assessment of exactly 80: eight of the ten checks pass.
C24_Witness ==
    /\ Returned
    /\ calculatedRatios.dataQuality.score = Num(80)
    /\ calculatedRatios.dataQuality.level = "High"
    /\ calculatedRatios.dataQuality.recommendation # UnreliableText

\* C29: in a distress score that is not Unknown the zone is the one the
\* formula's thresholds give for the reported (two-decimal) altmanZScore.
C29_ZoneAgreesWithReportedScore ==
    (Returned /\ Distress.riskZone # UnknownZone) =>
        Distress.riskZone =
            (IF Gt(Distress.altmanZScore, VariantUpper(Distress.formula)) THEN SafeZone
             ELSE IF Ge(Distress.altmanZScore, VariantLower(Distress.formula)) THEN GreyZone
             ELSE DistressZone)

-----------------------------------------------------------------------------
(* Claims about the portfolio summary as a function (PortfolioSpec) *)

Generated == portfolioAnalysis # NotGenerated

\* The number of companies of the summarised list in a zone.
InZone(zone) ==
    Cardinality({k \in DOMAIN argCompanies :
                    argCompanies[k].analysis.distressScore.riskZone = zone})

\* C22: over T >= 1 companies the portfolio risk is High exactly when the
\* Distress share is above 25%, otherwise Medium exactly when the Distress
\* share is above 10% or the Grey share above 50%, otherwise Low; a share
\* equal to 25%, 10% or 50% does not raise the tier.
C22_PortfolioRiskTier ==
    Generated =>
        LET total == Len(argCompanies)
            distress == InZone("Distress Zone")
            grey == InZone("Grey Zone")
            high == 100 * distress > 25 * total
            medium == 100 * distress > 10 * total \/ 100 * grey > 50 * total
            tier == portfolioAnalysis.portfolioRisk
        IN  /\ (tier = "High") = high
            /\ (tier = "Medium") = (~high /\ medium)
            /\ (tier = "Low") = (~high /\ ~medium)
            /\ (4 * distress = total /\ 2 * grey <= total) => tier # "High"
            /\ (10 * distress = total /\ 2 * grey = total) => tier = "Low"

\* Ten companies with one in the Distress zone (10%) and five in the Grey
\* zone (50%): the tier stays Low.
C22_Witness ==
    /\ Generated
    /\ Len(argCompanies) = 10
    /\ InZone("Distress Zone") = 1
    /\ InZone("Grey Zone") = 5
    /\ portfolioAnalysis.portfolioRisk = "Low"

\* The Z-scores (in hundredths) of the companies of a known zone, summed.
RECURSIVE KnownScores(_)
KnownScores(cs) ==
    IF cs = <<>> THEN 0
    ELSE LET score == Head(cs).analysis.distressScore
         IN  (IF score.riskZone = "Unknown" THEN 0 ELSE score.altmanZScore)
             + KnownScores(Tail(cs))

\* C30: a company of Unknown zone is counted in totalCompanies and enters
\* the average Z-score as 0, and is counted in none of the three zones: the
\* three counts sum to totalCompanies less the Unknown companies, and to
\* totalCompanies exactly when there is none.
C30_UnknownInTotalOnly ==
    Generated =>
        LET unknown == InZone("Unknown")
            zones == portfolioAnalysis.riskDistribution
            counted == zones.safeZone.count + zones.greyZone.count + zones.distressZone.count
        IN  /\ portfolioAnalysis.totalCompanies = Len(argCompanies)
            /\ portfolioAnalysis.averageZScore =
                  RoundDiv(KnownScores(argCompanies), portfolioAnalysis.totalCompanies)
            /\ zones.safeZone.count = InZone("Safe Zone")
            /\ zones.greyZone.count = InZone("Grey Zone")
            /\ zones.distressZone.count = InZone("Distress Zone")
            /\ counted = portfolioAnalysis.totalCompanies - unknown
            /\ (counted = portfolioAnalysis.totalCompanies) = (unknown = 0)

\* One Safe-zone company of score 4.05 beside one of Unknown zone: two
\* companies, one counted in a zone, average 2.03.
C30_Witness ==
    /\ Generated
    /\ InZone("Unknown") = 1
    /\ InZone("Safe Zone") = 1
    /\ portfolioAnalysis.totalCompanies = 2
    /\ portfolioAnalysis.averageZScore = 203
    /\ portfolioAnalysis.riskDistribution.distressZone.count = 0

-----------------------------------------------------------------------------
(* Claims about determineCompanyType (TypeSpec) *)

\* One of the fixed keywords occurs in the lower-cased text x.
NamesManufacturing(x) ==
    \E keyword \in manufacturingKeywords : includes(toLowerCase(TemplateOf(x)), keyword)

\* C23: the type returned for an industry and a sector text is
\* 'manufacturing' exactly when the lower-cased industry or sector holds
\* one of the fixed keywords, and 'non-manufacturing' otherwise, also when
\* both texts are missing.
C23_TypeByKeywords ==
    determinedType # NotDetermined =>
        /\ determinedType \in {"manufacturing", "non-manufacturing"}
        /\ (determinedType = "manufacturing") =
              (NamesManufacturing(argIndustry) \/ NamesManufacturing(argSector))
        /\ (argIndustry = MissingText /\ argSector = MissingText)
              => determinedType = "non-manufacturing"

\* A keyword in capitals beside a missing sector.
C23_Witness ==
    /\ argIndustry = Text(<<"M", "I", "N", "I", "N", "G">>)
    /\ argSector = MissingText
    /\ determinedType = "manufacturing"

-----------------------------------------------------------------------------
(* Further claims about the data service (SvcSpec) *)

PriceCalls == {c \in Callers : call[c].op = "getCurrentPrice"}

\* The place of a provider in the order of the price lookup.
PriceRank(p) == IF p = FMP THEN 1 ELSE IF p = Yahoo THEN 2 ELSE 3

\* The providers a price lookup can call: Yahoo, and those with a key.
PriceProviders == {p \in {FMP, AV} : apiKey[p]} \cup {Yahoo}

\* C26: a price lookup calls Financial Modeling Prep, Yahoo Finance and
\* Alpha Vantage in this order; it returns and caches the snapshot of the
\* provider it called last, and it raises the price error only after
\* calling every provider it can call, having written nothing to the cache.
C26_PriceFallbackOrder ==
    \A c \in PriceCalls :
        LET l == log[c]
        IN  /\ \A m, n \in DOMAIN l : m < n => PriceRank(l[m][1]) < PriceRank(l[n][1])
            /\ (call[c].pc = "returned" /\ l # <<>>) =>
                  /\ call[c].result = PriceData(call[c].arg, l[Len(l)][1])
                  /\ call[c].sets = {CacheKey("price", call[c].arg)}
            /\ (call[c].pc = "returned" /\ l = <<>>) => call[c].sets = {}
            /\ call[c].pc = "threw" =>
                  /\ call[c].err = PriceMessage
                  /\ PriceProviders \subseteq Tried(c)
                  /\ call[c].sets = {}

\* A price lookup answered by Alpha Vantage after Financial Modeling Prep
\* and Yahoo Finance had failed.
C26_Witness ==
    \E c \in PriceCalls :
        /\ call[c].pc = "returned"
        /\ Len(log[c]) = 3
        /\ call[c].result.origin = AV

\* The name searches a resolution has issued.
NameSearches(c) ==
    Cardinality({n \in DOMAIN log[c] : log[c][n][2] \in {"search", "SYMBOL_SEARCH"}})

Pending(c) == call[c].pc \notin {"idle", "returned", "threw"}

\* C27: while two resolutions of the same input are both under way, the
\* provider name search for that input has been issued at most once.
C27_OverlappingResolutionsShareSearch ==
    \A c1, c2 \in ResolveCalls :
        (c1 # c2 /\ call[c1].arg = call[c2].arg /\ Pending(c1) /\ Pending(c2))
            => NameSearches(c1) + NameSearches(c2) <= 1

-----------------------------------------------------------------------------
(* Further claims about the batch run (FairSpec, Spec) *)

\* The batch has completed: the response is sent, every item has settled
\* and every group has pushed its outcomes.
Completed ==
    /\ bpc = "responded"
    /\ response # NoResponse
    /\ \A k \in Positions : Settled(item[k])
    /\ Len(results) = Len(companies)

\* The steps analyzeCompany and its two fetches can still take for one item.
ItemStepsLeft(it) ==
    (CASE it.pc = "idle" -> 5
       [] it.pc = "resolve" -> 4
       [] it.pc \in {"fetch", "ai"} -> 1
       [] OTHER -> 0)
    + (IF it.fin = "inflight" THEN 1 ELSE 0)
    + (IF it.mkt = "inflight" THEN 1 ELSE 0)

\* The steps the loop over the groups can still take.
LoopStepsLeft ==
    CASE bpc = "received" -> 2 * Len(companies) + 3
      [] bpc = "group" -> 2 * (Len(companies) - i) + 2
      [] bpc = "pause" -> 2 * (Len(companies) - i) + 1
      [] OTHER -> 0

\* A step is either a step of one item, which uses up a step of that item
\* and leaves the loop and the other items alone, or a step of the loop,
\* which uses up a step of the loop and gives no item a step more.
StepsTaken ==
    /\ DOMAIN item' = DOMAIN item
    /\ \/ /\ bpc' = bpc
          /\ i' = i
          /\ \E k \in DOMAIN item :
                /\ item'[k] # item[k]
                /\ ItemStepsLeft(item'[k]) < ItemStepsLeft(item[k])
                /\ \A j \in DOMAIN item \ {k} : item'[j] = item[j]
       \/ /\ 0 <= LoopStepsLeft'
          /\ LoopStepsLeft' < LoopStepsLeft
          /\ \A k \in DOMAIN item : ItemStepsLeft(item'[k]) <= ItemStepsLeft(item[k])

\* C25: every batch eventually completes. Every step uses up one of a
\* finite number of steps left, and as long as the batch has not completed
\* (the response sent, every item settled, every group's outcomes pushed)
\* a step is possible: a provider call that fails or times out is such a
\* step. A step that stays possible is eventually taken (FairSpec), so the
\* batch runs on until it has completed.
C25_BatchCompletes ==
    /\ [](Completed \/ ENABLED Next)
    /\ [][StepsTaken]_vars

\* A full batch has been answered although a statements call of one item
\* timed out and the price call of another failed.
C25_Witness ==
    /\ bpc = "responded"
    /\ Len(companies) = MaxBatch
    /\ \E k \in Positions : item[k].fin = "threw"
    /\ \E k \in Positions : item[k].mkt = "threw"

\* C28: when a group is started, no call made for an item of an earlier
\* group is still in flight.
C28_NoCallLeftWhenGroupStarts ==
    [][(bpc = "pause" /\ bpc' = "group") =>
          \A k \in 1 .. i' : ~InFlight(item'[k])]_vars

=============================================================================
